---- MODULE Spec2Model ----
(***************************************************************************)
(* Paper-trade ledger of the trading coach backend                         *)
(* (src/backend/services/portfolio_sim.py, src/backend/domain.py), its     *)
(* file store (src/backend/services/persistence.py) and the /init and      *)
(* /paper_trade handlers that use them (src/backend/app.py).               *)
(*                                                                         *)
(* Specifications.  Spec: one portfolio's state stream under               *)
(* execute_trade.  Scenario: the same from cash 1000 with whole lots.      *)
(* Floats: the same on binary64 values, quantities and prices that are     *)
(* not dyadic included.  Server: /init and /paper_trade requests of        *)
(* concurrent workers on the store, whose files are truncated and then     *)
(* written (Path.write_text).  Market: calls of candles() and              *)
(* get_latest_price() on the quote sources                                 *)
(* (src/backend/services/market_data.py).  Ledgers: the functions of       *)
(* DynamoDBService, called concurrently and run table call by table call,  *)
(* each of which may raise ClientError, with LocalStorageService and the   *)
(* in-memory ledger given the same calls                                   *)
(* (src/backend/services/dynamodb_service.py, local_storage.py).  Api:     *)
(* the register, login, portfolio, /init and /paper_trade endpoints of     *)
(* src/backend/app.py on either db_service of app.py lines 77-92: the      *)
(* files of LocalStorageService, or the tables of DynamoDBService, one     *)
(* call of which may raise ClientError in a request.                       *)
(*                                                                         *)
(* Numbers.  The code computes with Python floats.  The model has two      *)
(* kinds of number.  An exact rational is a record [num, den, exp] that    *)
(* stands for (num / den) * 2^exp, with num and den odd and coprime (zero  *)
(* is [0, 1, 0]), so that every value has one record.  The inputs drawn    *)
(* as rationals are dyadic, and on them every cash balance, quantity and   *)
(* comparison of the code is exact in binary64; a quotient is kept exact,  *)
(* so where the code holds the float nearest to an average cost, these     *)
(* runs hold the average cost.  A binary64 value is a record [neg, lo, d]  *)
(* on which sum, product and quotient round to nearest, ties to even, as   *)
(* the float operations of the code do; Floats computes with these.  The   *)
(* operators RAdd, RMul, RDiv and RLess take either kind.                  *)
(***************************************************************************)
EXTENDS Integers, Sequences, FiniteSets, TLC

VARIABLES state, clock, last, store, reqs

vars == <<state, clock, last, store, reqs>>

(***************************************************************************)
(* Bounds of the model.                                                    *)
(***************************************************************************)
MaxCalls == 3

MaxShift == 8

(***************************************************************************)
(* Exact numbers: the records [num, den, exp].                             *)
(***************************************************************************)
Abs(x) == IF x < 0 THEN -x ELSE x

Sign(x) == IF x < 0 THEN -1 ELSE IF x > 0 THEN 1 ELSE 0

RECURSIVE GCD(_, _)
GCD(a, b) == IF b = 0 THEN a ELSE GCD(b, a % b)

\* The number of factors 2 of x > 0.
RECURSIVE V2(_)
V2(x) == IF x % 2 = 1 THEN 0 ELSE 1 + V2(x \div 2)

\* The record of (n / d) * 2^x, for d # 0.
Rat(n, d, x) ==
    IF n = 0 THEN [num |-> 0, den |-> 1, exp |-> 0]
    ELSE LET g  == GCD(Abs(n), Abs(d))
             n1 == (Sign(d) * n) \div g
             d1 == Abs(d) \div g
             v  == V2(Abs(n1))
             w  == V2(d1)
         IN [num |-> n1 \div (2 ^ v), den |-> d1 \div (2 ^ w), exp |-> x + v - w]

Zero == Rat(0, 1, 0)

\* The float literal 1e-9 of portfolio_sim.py:30.
Eps == Rat(1, 1000000000, 0)

(***************************************************************************)
(* Binary64 arithmetic: Python's float operations with their rounding.     *)
(* A magnitude is a record [lo, d]: the sequence d of its digits in base   *)
(* 2^13, least first, the first of them standing at 2^(13 * lo); it has no *)
(* zero digit at either end, and zero has no digit.  A binary64 number is  *)
(* a magnitude of at most 53 binary places, none below 2^-1074, with a     *)
(* sign (neg).  The sign of a zero is not kept: no operation of the ledger *)
(* tells -0.0 from 0.0.  The numbers drawn stay far below 2^1024, so that  *)
(* no operation overflows to inf.                                          *)
(***************************************************************************)
IsB64(a) == "d" \in DOMAIN a

NoDigits == [lo |-> 0, d |-> <<>>]

\* The digit of the magnitude M at 2^(13 * k).
Limb(M, k) == IF k < M.lo \/ k >= M.lo + Len(M.d) THEN 0 ELSE M.d[k - M.lo + 1]

\* The magnitude of the digits d from 2^(13 * lo) up, without the zero digits at
\* its ends.
Canon(lo, d) ==
    IF \A k \in 1..Len(d) : d[k] = 0 THEN NoDigits
    ELSE [lo |-> lo - 1 + CHOOSE f \in 1..Len(d) :
                              d[f] # 0 /\ \A k \in 1..(f - 1) : d[k] = 0,
          d  |-> SubSeq(d,
                        CHOOSE f \in 1..Len(d) :
                            d[f] # 0 /\ \A k \in 1..(f - 1) : d[k] = 0,
                        CHOOSE l \in 1..Len(d) :
                            d[l] # 0 /\ \A k \in (l + 1)..Len(d) : d[k] = 0)]

\* The carry out of the first k of the column sums c.
RECURSIVE Carries(_, _)
Carries(c, k) ==
    IF k = 0 THEN 0
    ELSE ((IF k <= Len(c) THEN c[k] ELSE 0) + Carries(c, k - 1)) \div 8192

\* The magnitude whose columns, from 2^(13 * lo) up, sum to c (each below 2^30).
Normal(lo, c) ==
    Canon(lo, [k \in 1..(Len(c) + 2) |->
                  ((IF k <= Len(c) THEN c[k] ELSE 0) + Carries(c, k - 1)) % 8192])

Least(a, b) == IF a < b THEN a ELSE b

\* A + B, exactly.
AddMag(A, B) ==
    IF A.d = <<>> THEN B
    ELSE IF B.d = <<>> THEN A
    ELSE Normal(Least(A.lo, B.lo),
                [k \in 1..(Len(A.d) + Len(B.d) + Abs(A.lo - B.lo)) |->
                    Limb(A, Least(A.lo, B.lo) + k - 1)
                    + Limb(B, Least(A.lo, B.lo) + k - 1)])

\* The borrow from the digit at 2^(13 * k) in A - B.
RECURSIVE Borrow(_, _, _)
Borrow(A, B, k) ==
    IF k <= Least(A.lo, B.lo) THEN 0
    ELSE IF Limb(A, k - 1) - Limb(B, k - 1) - Borrow(A, B, k - 1) < 0 THEN 1
    ELSE 0

\* A - B, exactly, for A >= B.
SubMag(A, B) ==
    IF B.d = <<>> THEN A
    ELSE Canon(Least(A.lo, B.lo),
               [k \in 1..(A.lo + Len(A.d) - Least(A.lo, B.lo)) |->
                   (Limb(A, Least(A.lo, B.lo) + k - 1)
                    - Limb(B, Least(A.lo, B.lo) + k - 1)
                    - Borrow(A, B, Least(A.lo, B.lo) + k - 1) + 8192) % 8192])

\* A < B
LessMag(A, B) ==
    \E k \in B.lo..(B.lo + Len(B.d) - 1) :
        /\ Limb(A, k) < Limb(B, k)
        /\ \A j \in (k + 1)..(A.lo + Len(A.d)) : Limb(A, j) = Limb(B, j)
        /\ \A j \in (k + 1)..(B.lo + Len(B.d)) : Limb(A, j) = Limb(B, j)

\* The sum of the products a[i] * b[k + 1 - i] for i from 1 to n.
RECURSIVE Column(_, _, _, _)
Column(a, b, k, n) ==
    IF n = 0 THEN 0
    ELSE (IF k + 1 - n >= 1 /\ k + 1 - n <= Len(b) THEN a[n] * b[k + 1 - n] ELSE 0)
         + Column(a, b, k, n - 1)

\* A * B, exactly.
MulMag(A, B) ==
    IF A.d = <<>> \/ B.d = <<>> THEN NoDigits
    ELSE Normal(A.lo + B.lo,
                [k \in 1..(Len(A.d) + Len(B.d) - 1) |-> Column(A.d, B.d, k, Len(A.d))])

\* 2^t
Pow2(t) == [lo |-> t \div 13, d |-> <<2 ^ (t % 13)>>]

\* The number of binary places of a digit t > 0.
BitLen(t) == CHOOSE n \in 1..13 : 2 ^ (n - 1) <= t /\ t < 2 ^ n

\* The highest binary place of a magnitude M # 0.
TopPlace(M) == 13 * (M.lo + Len(M.d) - 1) + BitLen(M.d[Len(M.d)]) - 1

\* Whether M has the binary place i.
HasPlace(M, i) == (Limb(M, i \div 13) \div (2 ^ (i % 13))) % 2 = 1

\* Whether M has a binary place below i.
HasBelow(M, i) ==
    M.d # <<>> /\ (M.lo < i \div 13 \/ Limb(M, i \div 13) % (2 ^ (i % 13)) # 0)

\* M without its binary places below q.
Truncated(M, q) ==
    IF q \div 13 >= M.lo + Len(M.d) THEN NoDigits
    ELSE
    Canon(q \div 13,
          [k \in 1..(M.lo + Len(M.d) - (q \div 13)) |->
              IF k = 1 THEN Limb(M, q \div 13) - (Limb(M, q \div 13) % (2 ^ (q % 13)))
              ELSE Limb(M, (q \div 13) + k - 1)])

\* The magnitude M rounded to the places from q up: to nearest, ties to even.
RoundAt(M, q) ==
    IF HasPlace(M, q - 1) /\ (HasPlace(M, q) \/ HasBelow(M, q - 1))
    THEN AddMag(Truncated(M, q), Pow2(q))
    ELSE Truncated(M, q)

\* The binary64 magnitude nearest to M: 53 places, none below 2^-1074.
RoundMag(M) ==
    IF M.d = <<>> THEN M
    ELSE RoundAt(M, IF TopPlace(M) - 52 < -1074 THEN -1074 ELSE TopPlace(M) - 52)

\* The magnitude of the integer n, 0 <= n < 2^31.
IntMag(n) == Canon(0, <<n % 8192, (n \div 8192) % 8192, n \div 67108864>>)

\* One binary place of a quotient: whether the divisor T goes into rem, and
\* what is left of rem.
DivStep(rem, T) ==
    IF LessMag(rem, T) THEN [q |-> 0, rem |-> rem]
    ELSE [q |-> 1, rem |-> SubMag(rem, T)]

DivJoin(q, r) == [q |-> q + r.q, rem |-> r.rem]

\* The n binary places from 2^e down of the quotient rem / B, rem being below
\* 2 * B * 2^e: their number q, in units of 2^(e - n + 1), and what is left of rem.
RECURSIVE DivDigit(_, _, _, _)
RECURSIVE DivNext(_, _, _, _)
DivDigit(rem, B, e, n) ==
    IF n = 0 THEN [q |-> 0, rem |-> rem]
    ELSE DivNext(DivStep(rem, MulMag(B, Pow2(e))), B, e, n)

DivNext(s, B, e, n) == DivJoin(s.q * (2 ^ (n - 1)), DivDigit(s.rem, B, e - 1, n - 1))

\* The quotient rem / B from the place 2^e down, k times 13 places of it; one
\* more place below them stands for what is then left of rem.
RECURSIVE DivFrom(_, _, _, _)
RECURSIVE DivRest(_, _, _, _)
DivFrom(rem, B, e, k) ==
    IF rem.d = <<>> THEN NoDigits
    ELSE IF k = 0 THEN Pow2(e - 1)
    ELSE DivRest(DivDigit(rem, B, e, 13), B, e, k)

DivRest(r, B, e, k) ==
    AddMag(MulMag(IntMag(r.q), Pow2(e - 12)), DivFrom(r.rem, B, e - 13, k - 1))

\* A / B for A, B # 0: the first 65 places of the quotient, and one more place
\* when the division leaves a remainder.
DivMag(A, B) == DivFrom(A, B, TopPlace(A) - TopPlace(B), 5)

B64(neg, M) == [neg |-> neg /\ M.d # <<>>, lo |-> M.lo, d |-> M.d]

\* a + b of two signed magnitudes, exactly.
ExactAdd(a, b) ==
    IF a.neg = b.neg THEN B64(a.neg, AddMag(a, b))
    ELSE IF LessMag(a, b) THEN B64(b.neg, SubMag(b, a))
    ELSE B64(a.neg, SubMag(a, b))

\* a * b of two signed magnitudes, exactly.
ExactMul(a, b) == B64(a.neg # b.neg, MulMag(a, b))

\* float(x) of the exact number x, as Python reads a literal: the binary64
\* number nearest to it.
ToB64(a) ==
    IF IsB64(a) THEN a
    ELSE IF a.num = 0 THEN B64(FALSE, NoDigits)
    ELSE B64(a.num < 0,
             RoundMag(MulMag(DivMag(IntMag(Abs(a.num)), IntMag(a.den)), Pow2(a.exp))))

\* a + b, a * b, a / b (b # 0) and a < b of binary64 numbers.
BAdd(a, b) == B64(ExactAdd(a, b).neg, RoundMag(ExactAdd(a, b)))

BMul(a, b) == B64(a.neg # b.neg, RoundMag(MulMag(a, b)))

BDiv(a, b) ==
    IF a.d = <<>> THEN B64(FALSE, NoDigits)
    ELSE B64(a.neg # b.neg, RoundMag(DivMag(a, b)))

BNeg(a) == B64(~a.neg, a)

BLess(a, b) ==
    IF a.neg # b.neg THEN a.neg
    ELSE IF a.neg THEN LessMag(b, a)
    ELSE LessMag(a, b)

(***************************************************************************)
(* Python's float operations on the numbers of either kind: exact on two   *)
(* exact numbers, and rounded to binary64 as soon as an operand is a       *)
(* binary64 number (an exact operand is then read as the float literal of  *)
(* its value).                                                             *)
(***************************************************************************)
\* a + b
RAdd(a, b) ==
    IF IsB64(a) \/ IsB64(b) THEN BAdd(ToB64(a), ToB64(b))
    ELSE IF a.num = 0 THEN b
    ELSE IF b.num = 0 THEN a
    ELSE LET x  == IF a.exp < b.exp THEN a.exp ELSE b.exp
             g  == GCD(a.den, b.den)
             na == a.num * (2 ^ (a.exp - x)) * (b.den \div g)
             nb == b.num * (2 ^ (b.exp - x)) * (a.den \div g)
         IN Rat(na + nb, a.den * (b.den \div g), x)

\* -a
RNeg(a) ==
    IF IsB64(a) THEN BNeg(a) ELSE [num |-> -a.num, den |-> a.den, exp |-> a.exp]

\* a - b
RSub(a, b) == RAdd(a, RNeg(b))

\* a * b
RMul(a, b) ==
    IF IsB64(a) \/ IsB64(b) THEN BMul(ToB64(a), ToB64(b))
    ELSE IF a.num = 0 \/ b.num = 0 THEN Zero
    ELSE LET g1 == GCD(Abs(a.num), b.den)
             g2 == GCD(Abs(b.num), a.den)
         IN Rat((a.num \div g1) * (b.num \div g2), (a.den \div g2) * (b.den \div g1),
                a.exp + b.exp)

\* a / b, for b # 0
RDiv(a, b) ==
    IF IsB64(a) \/ IsB64(b) THEN BDiv(ToB64(a), ToB64(b))
    ELSE IF a.num = 0 THEN Zero
    ELSE LET g1 == GCD(Abs(a.num), Abs(b.num))
             g2 == GCD(a.den, b.den)
         IN Rat(Sign(b.num) * (a.num \div g1) * (b.den \div g2),
                (a.den \div g2) * (Abs(b.num) \div g1), a.exp - b.exp)

\* xn / xd < yn / yd, for xn, yn >= 0 and xd, yd > 0, without forming a product:
\* compare the integer parts, then the reciprocals of the fractional parts.
RECURSIVE FracLess(_, _, _, _)
FracLess(xn, xd, yn, yd) ==
    LET fx == xn \div xd
        fy == yn \div yd
        r  == xn % xd
        m  == yn % yd
    IN IF fx # fy THEN fx < fy
       ELSE IF r = 0 THEN m > 0
       ELSE IF m = 0 THEN FALSE
       ELSE FracLess(yd, m, xd, r)

\* v doubled k times, stopping as soon as it reaches cap.
RECURSIVE ShlCap(_, _, _)
ShlCap(v, k, cap) == IF k = 0 \/ v >= cap THEN v ELSE ShlCap(2 * v, k - 1, cap)

\* 2^k * (xn / xd) < yn / yd, for k >= 0, xn, yn >= 0 and xd, yd > 0.
ScaledLess(k, xn, xd, yn, yd) ==
    LET cap == ((yn \div yd) + 1) * xd
        sx  == ShlCap(xn, k, cap)
    IN IF sx >= cap THEN FALSE ELSE FracLess(sx, xd, yn, yd)

\* |a| < |b| for a, b # 0
MagLess(a, b) ==
    IF a.exp >= b.exp
    THEN ScaledLess(a.exp - b.exp, Abs(a.num), a.den, Abs(b.num), b.den)
    ELSE ~ScaledLess(b.exp - a.exp, Abs(b.num), b.den, Abs(a.num), a.den)

\* a < b
RLess(a, b) ==
    IF IsB64(a) \/ IsB64(b) THEN BLess(ToB64(a), ToB64(b))
    ELSE IF Sign(a.num) # Sign(b.num) THEN Sign(a.num) < Sign(b.num)
    ELSE IF a.num = 0 THEN FALSE
    ELSE IF a.num > 0 THEN MagLess(a, b)
    ELSE MagLess(b, a)

\* a <= b
RLeq(a, b) == ~RLess(b, a)

\* max(a, b) of Python: a unless b is greater.
RMax(a, b) == IF RLess(a, b) THEN b ELSE a

\* a == 0
IsZero(a) == IF IsB64(a) THEN a.d = <<>> ELSE a.num = 0

(***************************************************************************)
(* Domain objects (src/backend/domain.py).                                 *)
(***************************************************************************)
Trade(symbol, side, quantity, price, time) ==
    [symbol |-> symbol, side |-> side, quantity |-> quantity, price |-> price,
     time |-> time]

Position(symbol, quantity, avg_price) ==
    [symbol |-> symbol, quantity |-> quantity, avg_price |-> avg_price]

PortfolioState(cash, positions, history) ==
    [cash |-> cash, positions |-> positions, history |-> history]

\* state.model_dump(): the nested dict of the fields, lists copied element by element.
model_dump(s) ==
    [cash      |-> s.cash,
     positions |-> [i \in 1..Len(s.positions) |->
                      [symbol    |-> s.positions[i].symbol,
                       quantity  |-> s.positions[i].quantity,
                       avg_price |-> s.positions[i].avg_price]],
     history   |-> [i \in 1..Len(s.history) |->
                      [symbol   |-> s.history[i].symbol,
                       side     |-> s.history[i].side,
                       quantity |-> s.history[i].quantity,
                       price    |-> s.history[i].price,
                       time     |-> s.history[i].time]]]

\* PortfolioState(**obj): new model objects built from the dict's entries.
FromDump(obj) ==
    PortfolioState(
        obj.cash,
        [i \in 1..Len(obj.positions) |->
            Position(obj.positions[i].symbol, obj.positions[i].quantity,
                     obj.positions[i].avg_price)],
        [i \in 1..Len(obj.history) |->
            Trade(obj.history[i].symbol, obj.history[i].side, obj.history[i].quantity,
                  obj.history[i].price, obj.history[i].time)])

(***************************************************************************)
(* The ledger (src/backend/services/portfolio_sim.py).                     *)
(***************************************************************************)
\* Index of the first position of the symbol, 0 when there is none.
FindPosition(positions, symbol) ==
    IF \E i \in 1..Len(positions) : positions[i].symbol = symbol
    THEN CHOOSE i \in 1..Len(positions) :
            /\ positions[i].symbol = symbol
            /\ \A j \in 1..(i - 1) : positions[j].symbol # symbol
    ELSE 0

\* Mutant of ensure_position: the search stops at the first position whatever
\* its symbol.
ensure_position_FirstSlot(positions, symbol) ==
    IF Len(positions) > 0
    THEN [positions |-> positions, idx |-> 1]
    ELSE [positions |-> Append(positions, Position(symbol, Zero, Zero)), idx |-> 1]

\* Mutant of ensure_position: a new position is appended without a search.
ensure_position_AlwaysAppend(positions, symbol) ==
    [positions |-> Append(positions, Position(symbol, Zero, Zero)),
     idx       |-> Len(positions) + 1]

\* ensure_position: the list as the call leaves it and the index of the position
\* it returns.
ensure_position(positions, symbol) ==
    IF FindPosition(positions, symbol) # 0
    THEN [positions |-> positions, idx |-> FindPosition(positions, symbol)]
    ELSE [positions |-> Append(positions, Position(symbol, Zero, Zero)),
          idx       |-> Len(positions) + 1]

\* Mutant of Rebind: line 22 left out, the local name stays bound to the argument.
Rebind_NoCopy(s) == [id |-> "arg", val |-> s]

\* Line 22: the object the local name `state` is bound to from there on, a copy
\* of the argument.
Rebind(s) == [id |-> "copy", val |-> FromDump(model_dump(s))]

\* Mutant of InsufficientCash: a cost equal to the cash is refused too.
InsufficientCash_OrEqual(cash, cost) == RLeq(cash, cost)

\* Mutant of InsufficientCash: the check left out.
InsufficientCash_Never(cash, cost) == FALSE

\* Line 25: state.cash < cost
InsufficientCash(cash, cost) == RLess(cash, cost)

\* Mutant of NewAvgPrice: the average is overwritten by the last price.
NewAvgPrice_LastPrice(avg_price, held, price, quantity) == price

\* Line 30: the new average price of a position (avg_price, held) after buying
\* quantity at price.
NewAvgPrice(avg_price, held, price, quantity) ==
    RDiv(RAdd(RMul(avg_price, held), RMul(price, quantity)),
         RMax(RAdd(held, quantity), Eps))

\* Lines 29-31: the position after buying quantity at price.
Bought(pos, quantity, price) ==
    Position(pos.symbol,
             RAdd(pos.quantity, quantity),
             NewAvgPrice(pos.avg_price, pos.quantity, price, quantity))

\* Lines 27-31 on the object obj, ep being what ensure_position returned.
ApplyBuy(obj, ep, quantity, price) ==
    [obj    |-> [obj EXCEPT
                    !.cash = RSub(@, RMul(quantity, price)),
                    !.positions = [ep.positions EXCEPT
                                      ![ep.idx] = Bought(@, quantity, price)]],
     raised |-> "none"]

\* Lines 24-31 on the object obj.
BuyBranch(obj, symbol, quantity, price) ==
    IF InsufficientCash(obj.cash, RMul(quantity, price))
    THEN [obj |-> obj, raised |-> "Insufficient cash"]
    ELSE ApplyBuy(obj, ensure_position(obj.positions, symbol), quantity, price)

\* Mutant of InsufficientShares: selling the whole holding is refused too.
InsufficientShares_OrEqual(held, quantity) == RLeq(held, quantity)

\* Mutant of InsufficientShares: the check left out.
InsufficientShares_Never(held, quantity) == FALSE

\* Line 34: pos.quantity < quantity
InsufficientShares(held, quantity) == RLess(held, quantity)

\* Mutant of AvgAfterSell: every sell resets the average.
AvgAfterSell_AlwaysReset(avg_price, remaining) == Zero

\* Mutant of AvgAfterSell: no sell resets the average.
AvgAfterSell_NeverReset(avg_price, remaining) == avg_price

\* Lines 38-39: the average price of a position after a sell left it the quantity
\* remaining.
AvgAfterSell(avg_price, remaining) == IF IsZero(remaining) THEN Zero ELSE avg_price

\* Lines 37-39: the position after selling quantity.
Sold(pos, quantity) ==
    Position(pos.symbol,
             RSub(pos.quantity, quantity),
             AvgAfterSell(pos.avg_price, RSub(pos.quantity, quantity)))

\* Lines 34-39 on the object obj, ep being what ensure_position returned (the
\* position it appended stays in obj when the sell is refused).
ApplySell(obj, ep, quantity, price) ==
    IF InsufficientShares(ep.positions[ep.idx].quantity, quantity)
    THEN [obj    |-> [obj EXCEPT !.positions = ep.positions],
          raised |-> "Insufficient shares"]
    ELSE [obj    |-> [obj EXCEPT
                         !.cash = RAdd(@, RMul(quantity, price)),
                         !.positions = [ep.positions EXCEPT
                                           ![ep.idx] = Sold(@, quantity)]],
          raised |-> "none"]

\* Lines 33-39 on the object obj.
SellBranch(obj, symbol, quantity, price) ==
    ApplySell(obj, ensure_position(obj.positions, symbol), quantity, price)

\* Mutant of AppendTrade: the record is put in front.
AppendTrade_Prepend(history, trade) == <<trade>> \o history

\* Line 40: state.history.append(trade)
AppendTrade(history, trade) == Append(history, trade)

\* Line 40 after the branch outcome br: nothing when the branch raised.
Record(br, trade) ==
    IF br.raised # "none" THEN br
    ELSE [obj    |-> [br.obj EXCEPT !.history = AppendTrade(@, trade)],
          raised |-> "none"]

\* Lines 23-40 on the object obj: the object as they leave it, and the exception.
Body(obj, symbol, side, quantity, price, time) ==
    Record(IF side = "buy" THEN BuyBranch(obj, symbol, quantity, price)
           ELSE SellBranch(obj, symbol, quantity, price),
           Trade(symbol, side, quantity, price, time))

NoState == [cash |-> Zero, positions |-> <<>>, history |-> <<>>, none |-> TRUE]

\* What a call on the argument s gives, the local name being bound to the object
\* id and run being what lines 23-40 did to it: the exception raised ("none" for
\* a return), the returned object (ret, with retid naming it: "copy" is a new
\* object, "arg" the argument itself) and the argument object as the call
\* leaves it (arg).
Outcome(s, id, run) ==
    [raised |-> run.raised,
     ret    |-> IF run.raised = "none" THEN run.obj ELSE NoState,
     retid  |-> IF run.raised = "none" THEN id ELSE "none",
     arg    |-> IF id = "arg" THEN run.obj ELSE s]

\* execute_trade
execute_trade(s, symbol, side, quantity, price, time) ==
    Outcome(s, Rebind(s).id, Body(Rebind(s).val, symbol, side, quantity, price, time))

(***************************************************************************)
(* The State Store (src/backend/services/persistence.py): one JSON file    *)
(* per user.  A file's text is the sequence of the JSON tokens that        *)
(* json.dumps writes; a token carries its kind (t) and its string (s),     *)
(* number (n) or time token (i).                                           *)
(***************************************************************************)
Punct(p) == [t |-> "punct", s |-> p, n |-> Zero, i |-> 0]

Key(k) == [t |-> "key", s |-> k, n |-> Zero, i |-> 0]

Str(x) == [t |-> "str", s |-> x, n |-> Zero, i |-> 0]

\* A number: repr gives the shortest decimal that reads back as the same float.
Num(x) == [t |-> "num", s |-> "", n |-> x, i |-> 0]

\* The string of a time token.
TimeStr(time) == [t |-> "time", s |-> "", n |-> Zero, i |-> time]

\* Mutant of FlattenSeq: the members are written last first.
RECURSIVE FlattenSeq_Reversed(_)
FlattenSeq_Reversed(texts) ==
    IF Len(texts) = 0 THEN <<>>
    ELSE FlattenSeq_Reversed(Tail(texts)) \o Head(texts)

\* The members of a JSON array, written one after the other in list order.
RECURSIVE FlattenSeq(_)
FlattenSeq(texts) ==
    IF Len(texts) = 0 THEN <<>>
    ELSE Head(texts) \o FlattenSeq(Tail(texts))

\* json.dumps of a position dict: its keys in the order model_dump gives them.
DumpPosition(p) ==
    <<Punct("{"), Key("symbol"), Str(p.symbol), Key("quantity"), Num(p.quantity),
      Key("avg_price"), Num(p.avg_price), Punct("}")>>

\* json.dumps of a trade dict.
DumpTrade(tr) ==
    <<Punct("{"), Key("symbol"), Str(tr.symbol), Key("side"), Str(tr.side),
      Key("quantity"), Num(tr.quantity), Key("price"), Num(tr.price),
      Key("time"), TimeStr(tr.time), Punct("}")>>

\* json.dumps(obj, indent=2) of a dumped portfolio state.
json_dumps(obj) ==
    <<Punct("{"), Key("cash"), Num(obj.cash), Key("positions"), Punct("[")>>
    \o FlattenSeq([k \in 1..Len(obj.positions) |-> DumpPosition(obj.positions[k])])
    \o <<Punct("]"), Key("history"), Punct("[")>>
    \o FlattenSeq([k \in 1..Len(obj.history) |-> DumpTrade(obj.history[k])])
    \o <<Punct("]"), Punct("}")>>

\* The least index of lo..hi at which the text has the token, hi + 1 when it has
\* it nowhere there.
IndexOf(text, lo, hi, tok) ==
    IF \E j \in lo..hi : text[j] = tok
    THEN CHOOSE j \in lo..hi : text[j] = tok /\ \A k \in lo..(j - 1) : text[k] # tok
    ELSE hi + 1

\* The token of the value of key k in the object that the text holds in lo..hi.
ValueOf(text, lo, hi, k) == text[IndexOf(text, lo, hi, Key(k)) + 1]

\* The indices in lo..hi at which the members of an array open, in text order.
RECURSIVE Members(_, _, _)
Members(text, lo, hi) ==
    IF IndexOf(text, lo, hi, Punct("{")) > hi THEN <<>>
    ELSE <<IndexOf(text, lo, hi, Punct("{"))>>
         \o Members(text, IndexOf(text, lo, hi, Punct("}")) + 1, hi)

\* The array of key k: the indices between its brackets.
ArrayOf(text, k) ==
    [lo |-> IndexOf(text, 1, Len(text), Key(k)) + 2,
     hi |-> IndexOf(text, IndexOf(text, 1, Len(text), Key(k)), Len(text), Punct("]")) - 1]

\* json.loads of a position object that opens at index lo.
LoadPosition(text, lo) ==
    [symbol    |-> ValueOf(text, lo, lo + 7, "symbol").s,
     quantity  |-> ValueOf(text, lo, lo + 7, "quantity").n,
     avg_price |-> ValueOf(text, lo, lo + 7, "avg_price").n]

\* json.loads of a trade object that opens at index lo.
LoadTrade(text, lo) ==
    [symbol   |-> ValueOf(text, lo, lo + 11, "symbol").s,
     side     |-> ValueOf(text, lo, lo + 11, "side").s,
     quantity |-> ValueOf(text, lo, lo + 11, "quantity").n,
     price    |-> ValueOf(text, lo, lo + 11, "price").n,
     time     |-> ValueOf(text, lo, lo + 11, "time").i]

\* json.loads of the array of positions whose members open at the indices at.
LoadPositions(text, at) == [k \in 1..Len(at) |-> LoadPosition(text, at[k])]

\* json.loads of the array of trades whose members open at the indices at.
LoadTrades(text, at) == [k \in 1..Len(at) |-> LoadTrade(text, at[k])]

\* json.loads of a file's text.
json_loads(text) ==
    [cash      |-> ValueOf(text, 1, Len(text), "cash").n,
     positions |-> LoadPositions(text, Members(text, ArrayOf(text, "positions").lo,
                                               ArrayOf(text, "positions").hi)),
     history   |-> LoadTrades(text, Members(text, ArrayOf(text, "history").lo,
                                            ArrayOf(text, "history").hi))]

Users == {"u1"}

\* A file of the data directory: whether it exists, and its text.
File(text) == [exists |-> TRUE, text |-> text]

\* No file: p.exists() is false.
NoFile == [exists |-> FALSE, text |-> <<>>]

\* The data directory before any request: no user has a file.
NoStore == [u \in Users |-> NoFile]

\* The bytes that an older, longer text leaves beyond the end of a newer one
\* that was written over it; lo and hi bound the number of bytes of the whole
\* file, which is that of the older text.
Trailing(lo, hi) == [t |-> "trailing", lo |-> lo, hi |-> hi]

\* The text followed by the last bytes of an older text.
Torn(text, lo, hi) == Append(text, Trailing(lo, hi))

\* json.loads raises JSONDecodeError: "Expecting value" on an empty text, "Extra
\* data" on a text with bytes after its value.
Undecodable(text) == text = <<>> \/ text[Len(text)].t = "trailing"

\* load_user: the dict read from the user's file; found is FALSE for None, and
\* raised is the exception of json.loads ("none" for none).
load_user(files, user_id) ==
    IF ~files[user_id].exists
    THEN [found |-> FALSE, raised |-> "none",
          obj |-> model_dump(PortfolioState(Zero, <<>>, <<>>))]
    ELSE IF Undecodable(files[user_id].text)
    THEN [found |-> FALSE, raised |-> "JSONDecodeError",
          obj |-> model_dump(PortfolioState(Zero, <<>>, <<>>))]
    ELSE [found |-> TRUE, raised |-> "none", obj |-> json_loads(files[user_id].text)]

\* Path.write_text, first half: open(mode='w') creates the file or truncates it.
OpenForWriting(files, user_id) == [files EXCEPT ![user_id] = File(<<>>)]

\* The digits of the numeral of n >= 0.
RECURSIVE Digits(_)
Digits(n) == IF n < 10 THEN 1 ELSE 1 + Digits(n \div 10)

\* The float is a multiple of 2^-8 below 2^30: its repr is its decimal expansion,
\* every digit of it.
ShortRepr(x) == x.den = 1 /\ x.exp >= -8 /\ x.exp <= 20 /\ Abs(x.num) < 1024

\* len(repr(x)) for such a float: sign, integer part, point, fraction digits
\* (".0" for a whole number).
ReprLen(x) ==
    (IF x.num < 0 THEN 1 ELSE 0)
    + (IF x.exp >= 0 THEN Digits(Abs(x.num) * (2 ^ x.exp)) + 2
       ELSE Digits(Abs(x.num) \div (2 ^ (-x.exp))) + 1 - x.exp)

\* The least and the greatest number of bytes that json.dumps writes for the
\* value of a token: a string in its quotes (the symbols and sides drawn are
\* ASCII letters, which json.dumps does not escape); a time string, which
\* isoformat gives 26 characters, and 19 in a second's first microsecond; a
\* float, whose repr has 3 to 24 characters when it is not a short one.
ValueLo(tok) ==
    IF tok.t = "str" THEN Len(tok.s) + 2
    ELSE IF tok.t = "time" THEN 21
    ELSE IF tok.t = "num" THEN (IF ShortRepr(tok.n) THEN ReprLen(tok.n) ELSE 3)
    ELSE 0

ValueHi(tok) ==
    IF tok.t = "str" THEN Len(tok.s) + 2
    ELSE IF tok.t = "time" THEN 28
    ELSE IF tok.t = "num" THEN (IF ShortRepr(tok.n) THEN ReprLen(tok.n) ELSE 24)
    ELSE 0

\* The bytes of the values of the first k tokens of a text, at least and at most.
RECURSIVE ValuesLo(_, _)
ValuesLo(text, k) == IF k = 0 THEN 0 ELSE ValuesLo(text, k - 1) + ValueLo(text[k])

RECURSIVE ValuesHi(_, _)
ValuesHi(text, k) == IF k = 0 THEN 0 ELSE ValuesHi(text, k - 1) + ValueHi(text[k])

\* The number of objects of a text that have the key k.
Count(text, k) == Cardinality({j \in 1..Len(text) : text[j] = Key(k)})

\* The bytes that indent=2 writes around the values of a list of n objects,
\* each with over bytes of braces, keys, separators and indentation: "[]", or
\* the brackets on lines of their own and the objects two lines apart.
ListBytes(n, over) == IF n = 0 THEN 2 ELSE 4 + n * (over + 2)

\* The bytes of a text of json.dumps(obj, indent=2) that are not those of a
\* value: 46 of the outer object, 69 of a position, 97 of a trade.
Layout(text) ==
    46 + ListBytes(Count(text, "avg_price"), 69) + ListBytes(Count(text, "time"), 97)

\* The number of bytes of a file's text, at least and at most.
BytesLo(text) ==
    IF text = <<>> THEN 0
    ELSE IF text[Len(text)].t = "trailing" THEN text[Len(text)].lo
    ELSE Layout(text) + ValuesLo(text, Len(text))

BytesHi(text) ==
    IF text = <<>> THEN 0
    ELSE IF text[Len(text)].t = "trailing" THEN text[Len(text)].hi
    ELSE Layout(text) + ValuesHi(text, Len(text))

\* The texts a file may hold after text was written at offset 0 over the text
\* old, which another writer wrote since this one opened the file: when old has
\* more bytes than text, its bytes beyond the end of text stay.
Overwritten(old, text) ==
    IF old = <<>> \/ old = text \/ BytesHi(old) <= BytesLo(text) THEN {text}
    ELSE IF BytesLo(old) > BytesHi(text) THEN {Torn(text, BytesLo(old), BytesHi(old))}
    ELSE {text,
          Torn(text, IF BytesLo(old) > BytesLo(text) THEN BytesLo(old)
                     ELSE BytesLo(text) + 1,
               BytesHi(old))}

\* Path.write_text, second half: f.write(data) and the close, which leave the
\* text new in the file, new being one of Overwritten(the file's text, data).
WriteText(files, user_id, new) == [files EXCEPT ![user_id] = File(new)]

\* save_user run alone: the file is opened and json.dumps(obj, indent=2) is
\* written to it.
save_user(files, user_id, obj) ==
    WriteText(OpenForWriting(files, user_id), user_id, json_dumps(obj))

(***************************************************************************)
(* The transport layer (src/backend/app.py): the handlers of /init and     *)
(* /paper_trade.  Each request slot holds the locals of one paper_trade    *)
(* call, the place it has reached (pc), the steps it has taken (trace) and *)
(* the time at which it loaded the user (loaded_at): the handlers of       *)
(* requests served by different workers on the same data directory         *)
(* interleave at their calls of load_user, md.candles and execute_trade,   *)
(* and at the two halves of save_user (Path.write_text opens the file,     *)
(* which truncates it, and writes the text afterwards).  A slot that       *)
(* serves /init holds the state it writes.                                 *)
(***************************************************************************)
Requests == {1, 2}

\* A slot that serves nothing.
IdleRequest ==
    [pc |-> "idle", user_id |-> "", symbol |-> "", side |-> "", quantity |-> Zero,
     user |-> model_dump(PortfolioState(Zero, <<>>, <<>>)), price |-> Zero,
     state |-> PortfolioState(Zero, <<>>, <<>>), raised |-> "none", status |-> 0,
     trace |-> <<>>, loaded_at |-> 0]

NoRequests == [r \in Requests |-> IdleRequest]

(***************************************************************************)
(* A portfolio's state stream: the caller keeps a state, calls              *)
(* execute_trade on it with a fresh time token, and keeps the returned      *)
(* state, or on an exception the object it passed in.                       *)
(***************************************************************************)
Symbols == {"X", "Y"}

\* "hold" stands for every side that is neither "buy" nor "sell".
Sides == {"buy", "sell", "hold"}

\* 0.5 and 2 shares, and the same scaled by 2^-29: 2^-30 (below 1e-9) and 2^-28.
Quantities == {Rat(1, 2, 0), Rat(2, 1, 0), Rat(1, 1, -30), Rat(1, 1, -28)}

Prices == {Rat(1, 1, 0), Rat(2, 1, 0)}

\* Starting cash: 3, and 3 * 2^-29.
InitCash == {Rat(3, 1, 0), Rat(3, 1, -29)}

Amounts(s) == {s.cash} \cup {s.positions[i].quantity : i \in 1..Len(s.positions)}

\* The quantity is on the scale of the amounts the portfolio holds (binary
\* exponents at most MaxShift apart), so that their sums and differences stay
\* inside TLC's integer range; a binary64 quantity has no such limit.
Commensurable(s, quantity) ==
    IF IsB64(quantity) THEN TRUE
    ELSE \A a \in Amounts(s) : a.num = 0 \/ Abs(a.exp - quantity.exp) <= MaxShift

NoCall ==
    [called |-> FALSE, pre |-> NoState, symbol |-> "", side |-> "", quantity |-> Zero,
     price |-> Zero, time |-> 0, raised |-> "none", ret |-> NoState, retid |-> "none",
     arg |-> NoState]

Init ==
    /\ state \in {PortfolioState(c, <<>>, <<>>) : c \in InitCash}
    /\ clock = 0
    /\ last = NoCall
    /\ store = NoStore
    /\ reqs = NoRequests

\* The record of a call: its arguments (pre is the state passed in, as it was
\* before the call) and its outcome r.
CallRecord(pre, symbol, side, quantity, price, time, r) ==
    [called |-> TRUE, pre |-> pre, symbol |-> symbol, side |-> side,
     quantity |-> quantity, price |-> price, time |-> time,
     raised |-> r.raised, ret |-> r.ret, retid |-> r.retid, arg |-> r.arg]

\* The state the caller holds after a call: the returned one, or on an exception
\* the object it passed in.
Kept(call) == IF call.raised = "none" THEN call.ret ELSE call.arg

ExecuteTrade(symbol, side, quantity, price) ==
    /\ clock < MaxCalls
    /\ Commensurable(state, quantity)
    /\ last' = CallRecord(state, symbol, side, quantity, price, clock + 1,
                     execute_trade(state, symbol, side, quantity, price, clock + 1))
    /\ state' = Kept(last')
    /\ clock' = clock + 1
    /\ UNCHANGED <<store, reqs>>

Next ==
    \E symbol \in Symbols, side \in Sides, quantity \in Quantities, price \in Prices :
        ExecuteTrade(symbol, side, quantity, price)

Spec == Init /\ [][Next]_vars

(***************************************************************************)
(* The server: /init and /paper_trade requests on the State Store.         *)
(***************************************************************************)
MaxTicks == 4

\* Starting cash of /init.
ServerCash == {Rat(3, 1, 0)}

\* The closes the Quote Source answers with.
Quotes == {Rat(1, 1, 0), Rat(2, 1, 0)}

\* TradeInput.symbol is any string: one of 40 characters.
LongSymbol == "LONGSYMBOLLONGSYMBOLLONGSYMBOLLONGSYMBOL"

\* The bodies of /paper_trade requests.  TradeInput puts no condition on the
\* quantity: 0 and -1 are requests as well.  (A buy of a negative quantity is
\* not drawn: it leaves an average cost of about -1e9, whose products leave
\* TLC's integer range.)
TradeInputs ==
    {[user_id |-> u, symbol |-> "X", side |-> sd, quantity |-> q] :
        u \in Users, sd \in {"buy", "sell"}, q \in {Rat(1, 2, 0), Rat(2, 1, 0)}}
    \cup {[user_id |-> u, symbol |-> "X", side |-> "hold", quantity |-> Rat(1, 2, 0)] :
        u \in Users}
    \cup {[user_id |-> u, symbol |-> "X", side |-> "sell", quantity |-> q] :
        u \in Users, q \in {Zero, Rat(-1, 1, 0)}}
    \cup {[user_id |-> u, symbol |-> LongSymbol, side |-> "sell", quantity |-> Zero] :
        u \in Users}

ServerInit ==
    /\ state = PortfolioState(Zero, <<>>, <<>>)
    /\ clock = 0
    /\ last = NoCall
    /\ store = NoStore
    /\ reqs = NoRequests

\* Lines 612-613 of init_user: a worker takes the request, builds the state with
\* the requested cash, and save_user opens the user's file.
InitUser(r, user_id, cash) ==
    /\ clock < MaxTicks
    /\ reqs[r].pc \in {"idle", "done"}
    /\ reqs' = [reqs EXCEPT ![r] =
                   [IdleRequest EXCEPT !.pc = "init_write", !.user_id = user_id,
                                       !.state = PortfolioState(cash, <<>>, <<>>),
                                       !.trace = <<"init">>]]
    /\ store' = OpenForWriting(store, user_id)
    /\ clock' = clock + 1
    /\ UNCHANGED <<state, last>>

\* The slot after save_user has returned: the handler returns, status 200.
Returned(req) == [req EXCEPT !.pc = "done", !.raised = "none", !.status = 200]

\* Lines 613-614 of init_user: save_user writes the text, and the response.
InitWrite(r) ==
    /\ reqs[r].pc = "init_write"
    /\ \E new \in Overwritten(store[reqs[r].user_id].text,
                              json_dumps(model_dump(reqs[r].state))) :
          store' = WriteText(store, reqs[r].user_id, new)
    /\ reqs' = [reqs EXCEPT ![r] = Returned(@)]
    /\ UNCHANGED <<state, clock, last>>

\* A /paper_trade request arrives with the body t and a worker starts on it.
Begin(r, t) ==
    /\ clock < MaxTicks
    /\ reqs[r].pc \in {"idle", "done"}
    /\ reqs' = [reqs EXCEPT ![r] =
                   [IdleRequest EXCEPT !.pc = "load", !.user_id = t.user_id,
                                       !.symbol = t.symbol, !.side = t.side,
                                       !.quantity = t.quantity]]
    /\ clock' = clock + 1
    /\ UNCHANGED <<state, last, store>>

\* The response of paper_trade: an HTTPException goes out as it is, every other
\* exception as a 500.
PaperTradeStatus(exc) ==
    IF exc = "none" THEN 200
    ELSE IF exc = "HTTPException 404" THEN 404
    ELSE 500

\* The request r ends with the exception exc (with "none": returns) at step.
Respond(req, step, exc) ==
    [req EXCEPT !.pc = "done", !.raised = exc, !.status = PaperTradeStatus(exc),
                !.trace = Append(@, step)]

\* What lines 760-762 leave in the slot, lu being what load_user did at the
\* time now: the dict it returned, the 404 when it returned None, or the
\* exception it raised.
Loaded(req, lu, now) ==
    IF lu.raised # "none" THEN Respond(req, "load", lu.raised)
    ELSE IF lu.found
    THEN [req EXCEPT !.pc = "price", !.user = lu.obj, !.loaded_at = now,
                     !.trace = Append(@, "load")]
    ELSE Respond(req, "load", "HTTPException 404")

\* Lines 760-762: user = load_user(t.user_id).
Load(r) ==
    /\ reqs[r].pc = "load"
    /\ reqs' = [reqs EXCEPT ![r] = Loaded(@, load_user(store, @.user_id), clock)]
    /\ UNCHANGED <<state, clock, last, store>>

\* Lines 764-765: the latest close of md.candles is the fill price.
Price(r, close) ==
    /\ reqs[r].pc = "price"
    /\ reqs' = [reqs EXCEPT ![r] = [@ EXCEPT !.pc = "apply", !.price = close,
                                             !.trace = Append(@, "price")]]
    /\ UNCHANGED <<state, clock, last, store>>

\* Lines 764-765 raise: the quote lookup fails.
PriceFails(r) ==
    /\ reqs[r].pc = "price"
    /\ reqs' = [reqs EXCEPT ![r] = Respond(@, "price", "quote lookup failed")]
    /\ UNCHANGED <<state, clock, last, store>>

\* Line 767: PortfolioState(**user), the state that was loaded at line 760.
Snapshot(req, files) == FromDump(req.user)

\* What lines 767-768 leave in the slot: the returned state, or the ledger's
\* exception.
Applied(req, call) ==
    IF call.raised = "none"
    THEN [req EXCEPT !.pc = "save", !.state = call.ret, !.trace = Append(@, "apply")]
    ELSE Respond(req, "apply", call.raised)

\* Mutant of FilesAfterApply: the state the handler holds after line 768 is
\* written at once, returned or not.
FilesAfterApply_WriteThrough(files, req, call) ==
    save_user(files, req.user_id, model_dump(Kept(call)))

\* The files after lines 767-768: execute_trade does no I/O.
FilesAfterApply(files, req, call) == files

\* Lines 767-768: state = execute_trade(PortfolioState(**user), ...), with the
\* time of the call.
Apply(r) ==
    /\ reqs[r].pc = "apply"
    /\ last' = CallRecord(Snapshot(reqs[r], store), reqs[r].symbol, reqs[r].side,
                          reqs[r].quantity, reqs[r].price, clock + 1,
                          execute_trade(Snapshot(reqs[r], store), reqs[r].symbol,
                                        reqs[r].side, reqs[r].quantity,
                                        reqs[r].price, clock + 1))
    /\ reqs' = [reqs EXCEPT ![r] = Applied(@, last')]
    /\ store' = FilesAfterApply(store, reqs[r], last')
    /\ clock' = clock + 1
    /\ UNCHANGED state

\* Line 769: save_user(t.user_id, state.model_dump()) opens the user's file.
Save(r) ==
    /\ reqs[r].pc = "save"
    /\ store' = OpenForWriting(store, reqs[r].user_id)
    /\ reqs' = [reqs EXCEPT ![r] = [@ EXCEPT !.pc = "write",
                                             !.trace = Append(@, "save")]]
    /\ UNCHANGED <<state, clock, last>>

\* Lines 769-771: save_user writes the text, and the response.
SaveWrite(r) ==
    /\ reqs[r].pc = "write"
    /\ \E new \in Overwritten(store[reqs[r].user_id].text,
                              json_dumps(model_dump(reqs[r].state))) :
          store' = WriteText(store, reqs[r].user_id, new)
    /\ reqs' = [reqs EXCEPT ![r] = Returned(@)]
    /\ UNCHANGED <<state, clock, last>>

ServerNext ==
    \/ \E r \in Requests, u \in Users, cash \in ServerCash : InitUser(r, u, cash)
    \/ \E r \in Requests : InitWrite(r)
    \/ \E r \in Requests, t \in TradeInputs : Begin(r, t)
    \/ \E r \in Requests : Load(r)
    \/ \E r \in Requests, close \in Quotes : Price(r, close)
    \/ \E r \in Requests : PriceFails(r)
    \/ \E r \in Requests : Apply(r)
    \/ \E r \in Requests : Save(r)
    \/ \E r \in Requests : SaveWrite(r)

Server == ServerInit /\ [][ServerNext]_vars

(***************************************************************************)
(* The scenario portfolio: a state stream that starts with cash 1000 and   *)
(* trades whole lots at prices 100, 150 and 200.                           *)
(***************************************************************************)
ScenarioCash == Rat(1000, 1, 0)

ScenarioQuantities == {Rat(2, 1, 0), Rat(4, 1, 0)}

ScenarioPrices == {Rat(100, 1, 0), Rat(150, 1, 0), Rat(200, 1, 0)}

ScenarioInit ==
    /\ state = PortfolioState(ScenarioCash, <<>>, <<>>)
    /\ clock = 0
    /\ last = NoCall
    /\ store = NoStore
    /\ reqs = NoRequests

ScenarioNext ==
    \E symbol \in Symbols, side \in {"buy", "sell"}, quantity \in ScenarioQuantities,
       price \in ScenarioPrices :
        ExecuteTrade(symbol, side, quantity, price)

Scenario == ScenarioInit /\ [][ScenarioNext]_vars

(***************************************************************************)
(* A state stream on binary64 numbers: the floats that the decimal         *)
(* literals of a request body are read as.  store is the state the stream  *)
(* started with.                                                           *)
(***************************************************************************)
\* Starting cash: 1.0 and 1000.0.
FloatCash == {ToB64(Rat(1, 1, 0)), ToB64(Rat(1000, 1, 0))}

\* 0.1 and 2.0 shares.
FloatQuantities == {ToB64(Rat(1, 10, 0)), ToB64(Rat(2, 1, 0))}

\* The fill prices 1.0 and 150.99.
FloatPrices == {ToB64(Rat(1, 1, 0)), ToB64(Rat(15099, 100, 0))}

FloatsInit ==
    /\ state \in {PortfolioState(c, <<>>, <<>>) : c \in FloatCash}
    /\ clock = 0
    /\ last = NoCall
    /\ store = state
    /\ reqs = NoRequests

FloatsNext ==
    \E symbol \in Symbols, side \in {"buy", "sell"}, quantity \in FloatQuantities,
       price \in FloatPrices :
        ExecuteTrade(symbol, side, quantity, price)

Floats == FloatsInit /\ [][FloatsNext]_vars

(***************************************************************************)
(* The Quote Source (src/backend/services/market_data.py): one call of     *)
(* candles() or get_latest_price() at a time.  In this specification       *)
(* store is the environment of the process (the configured provider,       *)
(* whether yfinance can be imported, whether an Alpha Vantage key is set), *)
(* reqs is the call in progress, last is what the last call returned and   *)
(* clock counts the calls made.                                            *)
(***************************************************************************)
MaxQuoteCalls == 2

YFINANCE_MAX_RETRIES == 3

YFINANCE_RETRY_DELAY == 1

Environments ==
    [provider : {"yfinance", "alpha_vantage"}, yfinance_installed : BOOLEAN,
     alpha_vantage_key : BOOLEAN]

\* What one ticker.history() call can give: rows with closes, an empty frame, a
\* frame whose closes are all NaN, or an exception.
YfOutcomes == {"rows", "empty", "nan", "raise"}

\* What one Alpha Vantage call can give.
AvOutcomes == {"rows", "fail"}

\* A frame (or a latest-price dict made of its last row): where it comes from
\* and its latest close.
Df(source, close) == [kind |-> "rows", source |-> source, close |-> close]

\* None.
NoDf == [kind |-> "none", source |-> "", close |-> Zero]

IdleCall ==
    [entry |-> "", pc |-> "idle", caller |-> "", attempt |-> 0, outcomes |-> <<>>,
     slept |-> 0, tried |-> <<>>, df |-> NoDf]

NoQuote == [called |-> FALSE, entry |-> "", ret |-> NoDf, tried |-> <<>>]

MarketInit ==
    /\ state = PortfolioState(Zero, <<>>, <<>>)
    /\ clock = 0
    /\ last = NoQuote
    /\ store \in Environments
    /\ reqs = IdleCall

\* The place at which candles() or get_latest_price() starts, or at which the
\* retry loop is entered for the caller: lines 101 and 286.
FirstProvider(env, fn) ==
    IF env.provider = "yfinance" THEN "yf_import"
    ELSE IF fn = "candles" THEN "c_av" ELSE "gl_av"

\* A call of candles(symbol) or get_latest_price(symbol) starts.
StartCall(entry) ==
    /\ clock < MaxQuoteCalls
    /\ reqs.pc = "idle"
    /\ reqs' = [IdleCall EXCEPT !.entry = entry, !.caller = entry,
                               !.pc = FirstProvider(store, entry)]
    /\ clock' = clock + 1
    /\ UNCHANGED <<state, last, store>>

\* The entry function returns df to its caller, having tried the sources tried.
Returns(df, tried) ==
    /\ last' = [called |-> TRUE, entry |-> reqs.entry, ret |-> df, tried |-> tried]
    /\ reqs' = IdleCall
    /\ UNCHANGED <<state, clock, store>>

Return(df) == Returns(df, reqs.tried)

\* Lines 54-58: import yfinance, None when it is not installed.
YfImport ==
    /\ reqs.pc = "yf_import"
    /\ reqs' = IF store.yfinance_installed
               THEN [reqs EXCEPT !.pc = "yf", !.attempt = 0, !.outcomes = <<>>,
                                 !.df = NoDf, !.tried = Append(@, "yfinance")]
               ELSE [reqs EXCEPT !.pc = "yf_back", !.attempt = 0, !.outcomes = <<>>,
                                 !.df = NoDf, !.tried = Append(@, "yfinance")]
    /\ UNCHANGED <<state, clock, last, store>>

\* Mutant of MoreAttempts: the loop runs once more.
MoreAttempts_OneMore(attempt) == attempt <= YFINANCE_MAX_RETRIES

\* Line 60: for attempt in range(YFINANCE_MAX_RETRIES)
MoreAttempts(attempt) == attempt < YFINANCE_MAX_RETRIES

\* Lines 67, 73 and 81-82: the seconds slept after a failed attempt.
Delay(outcome, attempt) ==
    IF outcome = "raise"
    THEN IF attempt < YFINANCE_MAX_RETRIES - 1
         THEN YFINANCE_RETRY_DELAY * (attempt + 1) ELSE 0
    ELSE YFINANCE_RETRY_DELAY

\* Lines 61-83: one attempt of the loop on the call c.
Attempted(c, outcome, close) ==
    IF outcome = "rows"
    THEN [c EXCEPT !.pc = "yf_back", !.df = Df("yfinance", close),
                   !.outcomes = Append(@, outcome)]
    ELSE [c EXCEPT !.attempt = @ + 1, !.outcomes = Append(@, outcome),
                   !.slept = @ + Delay(outcome, c.attempt)]

YfAttempt(outcome, close) ==
    /\ reqs.pc = "yf"
    /\ MoreAttempts(reqs.attempt)
    /\ reqs' = Attempted(reqs, outcome, close)
    /\ UNCHANGED <<state, clock, last, store>>

\* Lines 85-86: all attempts failed, None.
YfExhausted ==
    /\ reqs.pc = "yf"
    /\ ~MoreAttempts(reqs.attempt)
    /\ reqs' = [reqs EXCEPT !.pc = "yf_back", !.df = NoDf]
    /\ UNCHANGED <<state, clock, last, store>>

\* Lines 106 and 291: the caller looks at what the loop returned.
YfBack ==
    /\ reqs.pc = "yf_back"
    /\ reqs' = [reqs EXCEPT !.pc =
                   IF reqs.df.kind = "rows"
                   THEN IF reqs.caller = "candles" THEN "c_yf_result" ELSE "gl_yf_result"
                   ELSE IF reqs.caller = "candles" THEN "c_av" ELSE "gl_av"]
    /\ UNCHANGED <<state, clock, last, store>>

\* The call goes on at the place pc.
GoTo(pc) ==
    /\ reqs' = [reqs EXCEPT !.pc = pc]
    /\ UNCHANGED <<state, clock, last, store>>

\* candles() returns df: to the caller of the entry, or into line 176 of
\* get_latest_price.
CandlesReturn(df, tried) ==
    IF reqs.entry = "candles" THEN Returns(df, tried)
    ELSE /\ reqs' = [reqs EXCEPT !.pc = "gl_candles_result", !.df = df,
                                 !.tried = tried]
         /\ UNCHANGED <<state, clock, last, store>>

\* Lines 107-119 of get_latest_price: the dict of the last yfinance row; an
\* exception while it is built falls back to Alpha Vantage.
GlYfResult(converts) ==
    /\ reqs.pc = "gl_yf_result"
    /\ IF converts THEN Return(reqs.df) ELSE GoTo("gl_av")

\* Lines 291-304 of candles: the normalised yfinance frame; an exception while
\* it is built falls back to Alpha Vantage.
CYfResult(converts) ==
    /\ reqs.pc = "c_yf_result"
    /\ IF converts THEN CandlesReturn(reqs.df, reqs.tried) ELSE GoTo("c_av")

\* Lines 125-148 of get_latest_price: None without a key, else the quote
\* endpoint.
GlQuote(outcome, close) ==
    /\ reqs.pc = "gl_av"
    /\ IF ~store.alpha_vantage_key THEN Return(NoDf)
       ELSE IF outcome = "rows"
       THEN Returns(Df("alpha_vantage", close), Append(reqs.tried, "alpha_vantage"))
       ELSE /\ reqs' = [reqs EXCEPT !.pc = "gl_daily",
                                    !.tried = Append(@, "alpha_vantage")]
            /\ UNCHANGED <<state, clock, last, store>>

\* Lines 150-176 of get_latest_price: the daily endpoint, and when it fails the
\* call of candles().
GlDaily(outcome, close) ==
    /\ reqs.pc = "gl_daily"
    /\ IF outcome = "rows" THEN Return(Df("alpha_vantage", close))
       ELSE /\ reqs' = [reqs EXCEPT !.pc = FirstProvider(store, "candles"),
                                    !.caller = "candles"]
            /\ UNCHANGED <<state, clock, last, store>>

\* Lines 236-270 and 307-315 of candles: the Alpha Vantage frame when it has
\* rows (it has none without a key), else the frame of _generate_mock_data.
CAv(outcome, close) ==
    /\ reqs.pc = "c_av"
    /\ IF outcome = "rows" /\ store.alpha_vantage_key
       THEN CandlesReturn(Df("alpha_vantage", close),
                          Append(reqs.tried, "alpha_vantage"))
       ELSE CandlesReturn(Df("mock", close),
                          Append(Append(reqs.tried, "alpha_vantage"), "mock"))

\* Lines 178-192 of get_latest_price: the dict of the last row of the frame of
\* candles(); an exception while it is built gives None (lines 194-196).
GlCandlesResult(converts) ==
    /\ reqs.pc = "gl_candles_result"
    /\ IF converts THEN Return(reqs.df) ELSE Return(NoDf)

\* The steps of _fetch_yfinance_with_retry.
RetrySteps ==
    \/ YfImport
    \/ \E outcome \in YfOutcomes, close \in Quotes : YfAttempt(outcome, close)
    \/ YfExhausted

MarketNext ==
    \/ \E entry \in {"candles", "get_latest_price"} : StartCall(entry)
    \/ RetrySteps
    \/ YfBack
    \/ \E converts \in BOOLEAN : GlYfResult(converts)
    \/ \E converts \in BOOLEAN : CYfResult(converts)
    \/ \E outcome \in AvOutcomes, close \in Quotes : GlQuote(outcome, close)
    \/ \E outcome \in AvOutcomes, close \in Quotes : GlDaily(outcome, close)
    \/ \E outcome \in AvOutcomes, close \in Quotes : CAv(outcome, close)
    \/ \E converts \in BOOLEAN : GlCandlesResult(converts)

\* Every call of ticker.history() returns or raises: the loop takes its steps.
Market == MarketInit /\ [][MarketNext]_vars /\ WF_vars(RetrySteps)

(***************************************************************************)
(* The stored ledgers (src/backend/services/dynamodb_service.py and        *)
(* src/backend/services/local_storage.py).  A DynamoDB number is a Decimal *)
(* made of the repr of the float, which reads back as the same float: it   *)
(* is the float under the tag N.  Trade ids and timestamps are the number  *)
(* of the call that made them.                                             *)
(***************************************************************************)
PortfolioIds == {"p1"}

\* "p9" is the id of no portfolio.
RequestedIds == {"p1", "p9"}

\* Decimal(str(x))
Decimal(x) == [N |-> x]

\* float(d)
Float(d) == d.N

Hundred == Rat(100, 1, 0)

\* Lines 467-479 of update_position: the position dict and its metrics.
DbPosition(symbol, quantity, avg_cost, current_price) ==
    [symbol         |-> symbol,
     quantity       |-> quantity,
     avg_cost       |-> avg_cost,
     current_price  |-> current_price,
     current_value  |-> RMul(quantity, current_price),
     unrealized_pnl |-> RSub(RMul(quantity, current_price), RMul(quantity, avg_cost)),
     pnl_percent    |->
        IF RLess(Zero, RMul(quantity, avg_cost))
        THEN RMul(RDiv(RSub(RMul(quantity, current_price), RMul(quantity, avg_cost)),
                       RMul(quantity, avg_cost)),
                  Hundred)
        ELSE Zero]

\* float_to_decimal and decimal_to_float on a position dict.
PositionToDecimal(p) ==
    [symbol         |-> p.symbol,
     quantity       |-> Decimal(p.quantity),
     avg_cost       |-> Decimal(p.avg_cost),
     current_price  |-> Decimal(p.current_price),
     current_value  |-> Decimal(p.current_value),
     unrealized_pnl |-> Decimal(p.unrealized_pnl),
     pnl_percent    |-> Decimal(p.pnl_percent)]

PositionToFloat(p) ==
    [symbol         |-> p.symbol,
     quantity       |-> Float(p.quantity),
     avg_cost       |-> Float(p.avg_cost),
     current_price  |-> Float(p.current_price),
     current_value  |-> Float(p.current_value),
     unrealized_pnl |-> Float(p.unrealized_pnl),
     pnl_percent    |-> Float(p.pnl_percent)]

PositionsToDecimal(ps) == [i \in 1..Len(ps) |-> PositionToDecimal(ps[i])]

PositionsToFloat(ps) == [i \in 1..Len(ps) |-> PositionToFloat(ps[i])]

\* Lines 273-286 of create_portfolio: the portfolio dict; tracked_symbols is
\* the list the caller gave, <<>> for None (tracked_symbols or []).
NewPortfolio(portfolio_id, user_id, portfolio_name, initial_value, tracked_symbols) ==
    [portfolio_id    |-> portfolio_id,
     user_id         |-> user_id,
     portfolio_name  |-> portfolio_name,
     initial_value   |-> initial_value,
     current_balance |-> initial_value,
     positions       |-> <<>>,
     total_value     |-> initial_value,
     total_invested  |-> Zero,
     total_pnl       |-> Zero,
     pnl_percent     |-> Zero,
     tracked_symbols |-> tracked_symbols,
     is_active       |-> TRUE]

\* The attributes of a portfolio item that hold numbers.
NumberKeys ==
    {"initial_value", "current_balance", "total_value", "total_invested", "total_pnl",
     "pnl_percent"}

\* float_to_decimal and decimal_to_float on a portfolio dict: every float of
\* the dict and of its lists is converted, the other values are kept.
PortfolioToDecimal(p) ==
    [k \in DOMAIN p |->
        IF k \in NumberKeys THEN Decimal(p[k])
        ELSE IF k = "positions" THEN PositionsToDecimal(p[k])
        ELSE p[k]]

PortfolioToFloat(p) ==
    [k \in DOMAIN p |->
        IF k \in NumberKeys THEN Float(p[k])
        ELSE IF k = "positions" THEN PositionsToFloat(p[k])
        ELSE p[k]]

\* Lines 570-583 of execute_trade: the trade item.
TradeItem(trade_id, trade, balance_before, balance_after) ==
    [trade_id       |-> trade_id,
     portfolio_id   |-> trade.portfolio_id,
     timestamp      |-> trade_id,
     symbol         |-> trade.symbol,
     side           |-> trade.side,
     quantity       |-> Decimal(trade.quantity),
     price          |-> Decimal(trade.price),
     total_amount   |-> Decimal(RMul(trade.quantity, trade.price)),
     trade_type     |-> trade.trade_type,
     balance_before |-> Decimal(balance_before),
     balance_after  |-> Decimal(balance_after),
     status         |-> "completed"]

\* The two tables: the portfolio items by portfolio_id and the trade items in the
\* order they were put.
Tables(portfolios, trades) == [portfolios |-> portfolios, trades |-> trades]

\* None
None == [none |-> TRUE]

\* What a read of a table does: it answers, or it raises ClientError.
GetItem == {"ok", "ClientError"}

HasPortfolio(t, portfolio_id) == portfolio_id \in DOMAIN t.portfolios

\* Lines 296-304: get_portfolio, None when there is no item and when get_item
\* raises ClientError, which is logged.
get_portfolio(t, portfolio_id, get_item) ==
    IF get_item = "ok" /\ HasPortfolio(t, portfolio_id)
    THEN PortfolioToFloat(t.portfolios[portfolio_id])
    ELSE None

\* Lines 350-356: the attributes that update_portfolio sets, every key of
\* updates but the primary key.
SetKeys(updates) == DOMAIN updates \ {"portfolio_id"}

\* update_item with SET: the attributes are set on the item, new ones added.
Updated(item, updates) ==
    [k \in DOMAIN item \cup SetKeys(updates) |->
        IF k \in SetKeys(updates) THEN updates[k] ELSE item[k]]

\* The item that update_item works on: the stored one, or a new item of the key.
ItemOf(t, portfolio_id) ==
    IF HasPortfolio(t, portfolio_id) THEN t.portfolios[portfolio_id]
    ELSE [portfolio_id |-> portfolio_id]

\* Lines 333-376: update_portfolio; ValueError when updates has no attribute to
\* set, else the tables after update_item of float_to_decimal(updates).
update_portfolio(t, portfolio_id, updates) ==
    IF SetKeys(updates) = {} THEN [t |-> t, raised |-> "ValueError"]
    ELSE [t |-> [t EXCEPT !.portfolios =
                    [id \in DOMAIN t.portfolios \cup {portfolio_id} |->
                        IF id = portfolio_id
                        THEN Updated(ItemOf(t, portfolio_id), PortfolioToDecimal(updates))
                        ELSE t.portfolios[id]]],
          raised |-> "none"]

\* The index of the first position of the symbol in the list, 0 for none.
PositionIndex(positions, symbol) ==
    IF \E i \in 1..Len(positions) : positions[i].symbol = symbol
    THEN CHOOSE i \in 1..Len(positions) :
            /\ positions[i].symbol = symbol
            /\ \A j \in 1..(i - 1) : positions[j].symbol # symbol
    ELSE 0

\* sum(p['current_value'] for p in positions)
RECURSIVE TotalPositionsValue(_)
TotalPositionsValue(positions) ==
    IF positions = <<>> THEN Zero
    ELSE RAdd(TotalPositionsValue(SubSeq(positions, 1, Len(positions) - 1)),
              positions[Len(positions)].current_value)

\* positions.pop(i)
Pop(positions, i) ==
    SubSeq(positions, 1, i - 1) \o SubSeq(positions, i + 1, Len(positions))

\* Lines 481-488 of update_position: the list after the position of the symbol
\* was replaced, removed or appended.
PositionsAfter(positions, new_position) ==
    IF PositionIndex(positions, new_position.symbol) # 0
    THEN IF RLeq(new_position.quantity, Zero)
         THEN Pop(positions, PositionIndex(positions, new_position.symbol))
         ELSE [positions EXCEPT ![PositionIndex(positions, new_position.symbol)] =
                  new_position]
    ELSE IF RLess(Zero, new_position.quantity)
         THEN Append(positions, new_position)
         ELSE positions

\* Lines 485-499 of update_position: the updates of the totals, portfolio being
\* the portfolio read at line 446.
PositionUpdates(portfolio, positions) ==
    [positions      |-> positions,
     total_value    |-> RAdd(portfolio.current_balance, TotalPositionsValue(positions)),
     total_invested |-> portfolio.initial_value,
     total_pnl      |-> RSub(RAdd(portfolio.current_balance,
                                  TotalPositionsValue(positions)),
                             portfolio.initial_value),
     pnl_percent    |->
        IF RLess(Zero, portfolio.initial_value)
        THEN RMul(RDiv(RSub(RAdd(portfolio.current_balance,
                                 TotalPositionsValue(positions)),
                            portfolio.initial_value),
                       portfolio.initial_value),
                  Hundred)
        ELSE Zero]

\* The position of the symbol in the list positions.
PositionAt(positions, symbol) == positions[PositionIndex(positions, symbol)]

\* portfolio.get(key, default)
Get(d, key, default) == IF key \in DOMAIN d THEN d[key] ELSE default

\* Lines 501-511: get_position, None when get_portfolio gives None and when the
\* portfolio has no position of the symbol.
get_position(t, portfolio_id, symbol, get_item) ==
    IF get_portfolio(t, portfolio_id, get_item) = None THEN None
    ELSE IF PositionIndex(Get(get_portfolio(t, portfolio_id, get_item),
                              "positions", <<>>), symbol) = 0
    THEN None
    ELSE PositionAt(get_portfolio(t, portfolio_id, get_item).positions, symbol)

\* symbol in symbols
InList(symbols, symbol) == \E i \in 1..Len(symbols) : symbols[i] = symbol

\* The index of the first occurrence of the symbol in symbols.
FirstIndex(symbols, symbol) ==
    CHOOSE i \in 1..Len(symbols) :
        symbols[i] = symbol /\ \A j \in 1..(i - 1) : symbols[j] # symbol

\* symbols.remove(symbol), for a symbol in symbols: its first occurrence is
\* removed.
Removed(symbols, symbol) ==
    SubSeq(symbols, 1, FirstIndex(symbols, symbol) - 1)
    \o SubSeq(symbols, FirstIndex(symbols, symbol) + 1, Len(symbols))

\* The values of trade_type.
TradeTypes == {"market", "limit"}

\* One call of a function of DynamoDBService: the function (op), its arguments,
\* the table call it has come to (pc), its local variables, the exception it
\* raised ("none" for none) and, for delete_portfolio, what it returned.  The
\* arguments of update_position are symbol, new_quantity, new_avg_cost and
\* price; updates is the dict of the next update_item or put_item.
IdleTrade ==
    [op |-> "", pc |-> "idle", trade_id |-> 0, portfolio_id |-> "", symbol |-> "",
     side |-> "", quantity |-> Zero, price |-> Zero, trade_type |-> "",
     portfolio |-> None, new_balance |-> Zero, new_quantity |-> Zero,
     new_avg_cost |-> Zero, updates |-> None, raised |-> "none", ret |-> "none"]

\* execute_trade is called: its first table call is the read of line 543.
TradeCall(trade_id, portfolio_id, symbol, side, quantity, price, trade_type) ==
    [IdleTrade EXCEPT !.op = "execute_trade", !.pc = "get_portfolio",
                      !.trade_id = trade_id, !.portfolio_id = portfolio_id,
                      !.symbol = symbol, !.side = side, !.quantity = quantity,
                      !.price = price, !.trade_type = trade_type]

\* The tables and the call after a step.
After(t, c) == [t |-> t, c |-> c]

Raise(t, c, exception) == After(t, [c EXCEPT !.pc = "done", !.raised = exception])

\* Lines 552-554 and 563-565, portfolio being what line 543 read: a buy is
\* refused when it costs more than the balance, else the new balance.
ValidatedBuy(t, c, portfolio) ==
    IF "current_balance" \notin DOMAIN portfolio THEN Raise(t, c, "KeyError")
    ELSE IF RLess(portfolio.current_balance, RMul(c.quantity, c.price))
    THEN Raise(t, c, "ValueError")
    ELSE After(t, [c EXCEPT !.pc = "put_trade", !.portfolio = portfolio,
                            !.new_balance = RSub(portfolio.current_balance,
                                                 RMul(c.quantity, c.price))])

\* Lines 544-561 up to the next table call, portfolio being what line 543 read.
Validated(t, c, portfolio) ==
    IF portfolio = None THEN Raise(t, c, "ValueError")
    ELSE IF c.side = "buy" THEN ValidatedBuy(t, c, portfolio)
    ELSE IF c.side = "sell"
    THEN After(t, [c EXCEPT !.pc = "validate", !.portfolio = portfolio])
    ELSE Raise(t, c, "ValueError")

\* Lines 543-561: the portfolio is read, and a buy or another side is validated.
DbGetPortfolio(t, c, get_item) ==
    Validated(t, c, get_portfolio(t, c.portfolio_id, get_item))

\* Lines 557-567 for a sell, position being what line 556 read.
ValidatedSell(t, c, position) ==
    IF position = None \/ RLess(position.quantity, c.quantity)
    THEN Raise(t, c, "ValueError")
    ELSE IF "current_balance" \notin DOMAIN c.portfolio THEN Raise(t, c, "KeyError")
    ELSE After(t, [c EXCEPT !.pc = "put_trade",
                            !.new_balance = RAdd(c.portfolio.current_balance,
                                                 RMul(c.quantity, c.price))])

\* Lines 556-567: the position is read and the sell validated.
DbValidate(t, c, get_item) ==
    ValidatedSell(t, c, get_position(t, c.portfolio_id, c.symbol, get_item))

\* Lines 570-588: the trade item is put.
DbPutTrade(t, c) ==
    After([t EXCEPT !.trades =
              Append(@, TradeItem(c.trade_id, c, c.portfolio.current_balance,
                                  c.new_balance))],
          [c EXCEPT !.pc = "update_balance"])

\* The call after a call of update_portfolio, which goes on at the place next
\* unless update_portfolio raised.
DbUpdated(u, c, next) ==
    IF u.raised # "none" THEN Raise(u.t, c, u.raised)
    ELSE After(u.t, [c EXCEPT !.pc = next])

\* Line 591: update_portfolio(portfolio_id, {'current_balance': new_balance})
DbUpdateBalance(t, c) ==
    DbUpdated(update_portfolio(t, c.portfolio_id, [current_balance |-> c.new_balance]),
              c, "get_position")

\* The call goes on to update_position with the quantity and the average cost.
ToUpdatePosition(t, c, quantity, avg_cost) ==
    After(t, [c EXCEPT !.pc = "update_position", !.new_quantity = quantity,
                       !.new_avg_cost = avg_cost])

\* Lines 596-610, position being what line 594 read: the arguments of
\* update_position.  The division of line 602 raises ZeroDivisionError when the
\* new quantity is 0; the sell branch subscripts the position, None or not.
Positioned(t, c, position) ==
    IF c.side = "buy"
    THEN IF position = None THEN ToUpdatePosition(t, c, c.quantity, c.price)
         ELSE IF IsZero(RAdd(position.quantity, c.quantity))
         THEN Raise(t, c, "ZeroDivisionError")
         ELSE ToUpdatePosition(t, c, RAdd(position.quantity, c.quantity),
                               RDiv(RAdd(RMul(position.quantity, position.avg_cost),
                                         RMul(c.quantity, c.price)),
                                    RAdd(position.quantity, c.quantity)))
    ELSE IF position = None THEN Raise(t, c, "TypeError")
    ELSE ToUpdatePosition(t, c, RSub(position.quantity, c.quantity), position.avg_cost)

\* Lines 594-610: position = self.get_position(portfolio_id, symbol), and the
\* new quantity and average cost.
DbGetPosition(t, c, get_item) ==
    Positioned(t, c, get_position(t, c.portfolio_id, c.symbol, get_item))

\* Lines 447-499 of update_position up to update_portfolio, portfolio being what
\* line 446 read: ValueError for None, KeyError when the item has no
\* current_balance or no initial_value, else the dict of the updates.
PositionComputed(t, c, portfolio) ==
    IF portfolio = None THEN Raise(t, c, "ValueError")
    ELSE IF ~({"current_balance", "initial_value"} \subseteq DOMAIN portfolio)
    THEN Raise(t, c, "KeyError")
    ELSE After(t, [c EXCEPT
                      !.pc = "write_position",
                      !.updates =
                         PositionUpdates(portfolio,
                             PositionsAfter(Get(portfolio, "positions", <<>>),
                                            DbPosition(c.symbol, c.new_quantity,
                                                       c.new_avg_cost, c.price)))])

\* Lines 446-491 of update_position: the portfolio is read again.
DbUpdatePosition(t, c, get_item) ==
    PositionComputed(t, c, get_portfolio(t, c.portfolio_id, get_item))

\* What a function returns after its last table call: delete_portfolio True.
AtReturn(c) == IF c.op = "delete_portfolio" THEN [c EXCEPT !.ret = "True"] ELSE c

\* Lines 360-372 of update_portfolio: update_item with the updates of the call,
\* after which the function returns (line 612 for execute_trade).
DbUpdateItem(t, c) ==
    DbUpdated(update_portfolio(t, c.portfolio_id, c.updates), AtReturn(c), "done")

\* Lines 289-291 of create_portfolio: put_item of the new item.
DbPutPortfolio(t, c) ==
    After([t EXCEPT !.portfolios =
              [id \in DOMAIN t.portfolios \cup {c.portfolio_id} |->
                  IF id = c.portfolio_id THEN PortfolioToDecimal(c.updates)
                  ELSE t.portfolios[id]]],
          [c EXCEPT !.pc = "done"])

\* The call goes on to update_portfolio with the list of tracked symbols.
ToUpdateTracked(t, c, tracked_symbols) ==
    After(t, [c EXCEPT !.pc = "update_item",
                       !.updates = [tracked_symbols |-> tracked_symbols]])

\* Lines 380-388 and 393-401, portfolio being what get_portfolio read: the
\* symbol is appended when it is not in the list, or removed when it is; else
\* the portfolio is returned as it was read.
Tracked(t, c, portfolio) ==
    IF portfolio = None THEN Raise(t, c, "ValueError")
    ELSE IF c.op = "add_tracked_symbol"
    THEN IF InList(Get(portfolio, "tracked_symbols", <<>>), c.symbol)
         THEN After(t, [c EXCEPT !.pc = "done"])
         ELSE ToUpdateTracked(t, c, Append(Get(portfolio, "tracked_symbols", <<>>),
                                           c.symbol))
    ELSE IF InList(Get(portfolio, "tracked_symbols", <<>>), c.symbol)
         THEN ToUpdateTracked(t, c, Removed(portfolio.tracked_symbols, c.symbol))
         ELSE After(t, [c EXCEPT !.pc = "done"])

\* Lines 379 and 392: add_tracked_symbol and remove_tracked_symbol read the
\* portfolio.
DbGetTracked(t, c, get_item) ==
    Tracked(t, c, get_portfolio(t, c.portfolio_id, get_item))

\* The table call of the call c at its place, get_item being what a read does,
\* with the lines that follow it up to the next table call.
DbStep(t, c, get_item) ==
    CASE c.pc = "get_portfolio"   -> DbGetPortfolio(t, c, get_item)
      [] c.pc = "validate"        -> DbValidate(t, c, get_item)
      [] c.pc = "put_trade"       -> DbPutTrade(t, c)
      [] c.pc = "update_balance"  -> DbUpdateBalance(t, c)
      [] c.pc = "get_position"    -> DbGetPosition(t, c, get_item)
      [] c.pc = "update_position" -> DbUpdatePosition(t, c, get_item)
      [] c.pc = "write_position"  -> DbUpdateItem(t, c)
      [] c.pc = "update_item"     -> DbUpdateItem(t, c)
      [] c.pc = "put_portfolio"   -> DbPutPortfolio(t, c)
      [] c.pc = "get_tracked"     -> DbGetTracked(t, c, get_item)

\* The places at which a call reads the portfolio table (get_item).
ReadPlaces == {"get_portfolio", "validate", "get_position", "update_position",
               "get_tracked"}

\* The places at which a call writes to a table (put_item, update_item).
WritePlaces == {"put_trade", "update_balance", "write_position", "update_item",
                "put_portfolio"}

\* The call after its write raised ClientError: delete_portfolio catches every
\* exception and returns False (lines 417-419), the others raise it (lines
\* 292-294, 373-375 and 614-616).
WriteFailed(c) ==
    IF c.op = "delete_portfolio" THEN [c EXCEPT !.pc = "done", !.ret = "False"]
    ELSE [c EXCEPT !.pc = "done", !.raised = "ClientError"]

\* Lines 343-358 of update_portfolio, called with updates: ValueError when
\* there is nothing to set, before any table call.
UpdateCall(op, portfolio_id, updates) ==
    IF SetKeys(updates) = {}
    THEN [IdleTrade EXCEPT !.op = op, !.pc = "done", !.portfolio_id = portfolio_id,
                           !.updates = updates, !.raised = "ValueError"]
    ELSE [IdleTrade EXCEPT !.op = op, !.pc = "update_item",
                           !.portfolio_id = portfolio_id, !.updates = updates]

\* update_position is called: its first table call is the read of line 446.
PositionCall(portfolio_id, symbol, quantity, avg_cost, current_price) ==
    [IdleTrade EXCEPT !.op = "update_position", !.pc = "update_position",
                      !.portfolio_id = portfolio_id, !.symbol = symbol,
                      !.new_quantity = quantity, !.new_avg_cost = avg_cost,
                      !.price = current_price]

\* add_tracked_symbol or remove_tracked_symbol (op) is called.
TrackedCall(op, portfolio_id, symbol) ==
    [IdleTrade EXCEPT !.op = op, !.pc = "get_tracked", !.portfolio_id = portfolio_id,
                      !.symbol = symbol]

\* create_portfolio is called and generate_uuid gives portfolio_id: lines
\* 271-287 build the item.
CreateCall(portfolio_id, user_id, portfolio_name, initial_value, tracked_symbols) ==
    [IdleTrade EXCEPT !.op = "create_portfolio", !.pc = "put_portfolio",
                      !.portfolio_id = portfolio_id,
                      !.updates = NewPortfolio(portfolio_id, user_id, portfolio_name,
                                               initial_value, tracked_symbols)]

(***************************************************************************)
(* LocalStorageService: portfolios.json and trades.json.                   *)
(***************************************************************************)
\* Lines 131-143 of create_portfolio: tracked_symbols is the list the caller
\* gave, <<>> for None (tracked_symbols or []); now is the time of the call.
LocalPortfolio(portfolio_id, user_id, portfolio_name, initial_value, tracked_symbols, now) ==
    [portfolio_id    |-> portfolio_id,
     user_id         |-> user_id,
     portfolio_name  |-> portfolio_name,
     initial_value   |-> initial_value,
     current_balance |-> initial_value,
     total_value     |-> initial_value,
     positions       |-> <<>>,
     tracked_symbols |-> tracked_symbols,
     is_active       |-> TRUE,
     created_at      |-> now]

\* Lines 125-149: create_portfolio with the next uuid; req is the name, the
\* initial value and the tracked symbols.
local_create_portfolio(s, portfolio_id, user_id, req, now) ==
    [s EXCEPT !.portfolios =
        [id \in DOMAIN s.portfolios \cup {portfolio_id} |->
            IF id = portfolio_id
            THEN LocalPortfolio(id, user_id, req.portfolio_name, req.initial_value,
                                req.tracked_symbols, now)
            ELSE s.portfolios[id]]]

\* Lines 171-177: delete_portfolio; it returns whether the id has a portfolio.
local_delete_portfolio(s, portfolio_id) ==
    IF portfolio_id \in DOMAIN s.portfolios
    THEN [s EXCEPT !.portfolios[portfolio_id].is_active = FALSE]
    ELSE s

\* Lines 179-188: add_tracked_symbol; it returns None for an id without a
\* portfolio.
local_add_tracked_symbol(s, portfolio_id, symbol) ==
    IF portfolio_id \notin DOMAIN s.portfolios THEN s
    ELSE IF InList(s.portfolios[portfolio_id].tracked_symbols, symbol) THEN s
    ELSE [s EXCEPT !.portfolios[portfolio_id].tracked_symbols = Append(@, symbol)]

\* Lines 190-199: remove_tracked_symbol.
local_remove_tracked_symbol(s, portfolio_id, symbol) ==
    IF portfolio_id \notin DOMAIN s.portfolios THEN s
    ELSE IF InList(s.portfolios[portfolio_id].tracked_symbols, symbol)
    THEN [s EXCEPT !.portfolios[portfolio_id].tracked_symbols = Removed(@, symbol)]
    ELSE s

\* Lines 210-221 of execute_trade.
LocalTrade(trade_id, portfolio_id, symbol, side, quantity, price, trade_type) ==
    [trade_id |-> trade_id, portfolio_id |-> portfolio_id, symbol |-> symbol,
     side |-> side, quantity |-> quantity, price |-> price, trade_type |-> trade_type,
     status |-> "filled", executed_at |-> trade_id]

\* Lines 229-233 of execute_trade.
LocalBalance(balance, side, cost) ==
    IF side = "buy" THEN RSub(balance, cost) ELSE RAdd(balance, cost)

\* Lines 201-237: LocalStorageService.execute_trade on the files f.
local_execute_trade(f, trade_id, portfolio_id, symbol, side, quantity, price, trade_type) ==
    IF portfolio_id \notin DOMAIN f.portfolios
    THEN [f |-> f, raised |-> "ValueError"]
    ELSE [f |-> [f EXCEPT
                    !.portfolios[portfolio_id].current_balance =
                        LocalBalance(@, side, RMul(quantity, price)),
                    !.trades =
                        Append(@, LocalTrade(trade_id, portfolio_id, symbol, side,
                                             quantity, price, trade_type))],
          raised |-> "none"]

(***************************************************************************)
(* The stored ledgers under their callers.  Every call is given to         *)
(* DynamoDBService and, where it has the function, to LocalStorageService; *)
(* a trade of a positive quantity on the portfolio p1 is given to the      *)
(* in-memory ledger as well.  The calls of DynamoDBService run in two      *)
(* slots (reqs) and take their table calls one at a time, in any order: a  *)
(* read (get_item) and a write (put_item, update_item) may raise           *)
(* ClientError.  LocalStorageService and the in-memory ledger have run the *)
(* call when it starts.  store is the two tables and the two files, state  *)
(* the state of the in-memory ledger and the log of what has happened,     *)
(* last the call that started last, clock the number of calls started.     *)
(***************************************************************************)
MaxDbCalls == 2

\* The ids that generate_uuid gives to created portfolios, by the number of
\* the call.
NewIds == <<"p2", "p3", "p4">>

TradeRequest(portfolio_id, symbol, side, quantity, price, trade_type) ==
    [portfolio_id |-> portfolio_id, symbol |-> symbol, side |-> side,
     quantity |-> quantity, price |-> price, trade_type |-> trade_type]

\* The execute_trade requests: quantity is any float (2, 0.5, -2 and 2^-30,
\* which is below 1e-9), "hold" stands for every side that is neither "buy" nor
\* "sell", p9 is the id of no portfolio.
LedgerTrades ==
    {TradeRequest("p1", "X", "buy", Rat(2, 1, 0), Rat(1, 1, 0), "market"),
     TradeRequest("p1", "X", "buy", Rat(-2, 1, 0), Rat(1, 1, 0), "market"),
     TradeRequest("p1", "Y", "buy", Rat(2, 1, 0), Rat(2, 1, 0), "market"),
     TradeRequest("p1", "X", "buy", Rat(1, 1, -30), Rat(1, 1, 0), "market"),
     TradeRequest("p1", "X", "sell", Rat(2, 1, 0), Rat(1, 1, 0), "limit"),
     TradeRequest("p1", "X", "sell", Rat(1, 2, 0), Rat(2, 1, 0), "market"),
     TradeRequest("p1", "X", "hold", Rat(2, 1, 0), Rat(1, 1, 0), "market"),
     TradeRequest("p9", "X", "buy", Rat(2, 1, 0), Rat(1, 1, 0), "market")}

\* The updates of the update_portfolio calls: an attribute, and the key alone.
LedgerUpdates == {[is_active |-> FALSE], [portfolio_id |-> "p1"]}

LedgerStore(cash) ==
    [dynamo |-> Tables([id \in PortfolioIds |->
                           PortfolioToDecimal(NewPortfolio(id, "u1", "main", cash, <<>>))],
                       <<>>),
     local  |-> [portfolios |->
                    [id \in PortfolioIds |->
                        LocalPortfolio(id, "u1", "main", cash, <<>>, 0)],
                 trades     |-> <<>>]]

NoLedgerCall ==
    [called |-> FALSE, op |-> "", slot |-> 0, alone |-> TRUE, before |-> LedgerStore(Zero),
     memory |-> "none", local |-> "none"]

LedgersInit ==
    /\ \E cash \in InitCash :
          /\ state = [memory |-> PortfolioState(cash, <<>>, <<>>), log |-> {}]
          /\ store = LedgerStore(cash)
    /\ clock = 0
    /\ last = NoLedgerCall
    /\ reqs = [r \in Requests |-> IdleTrade]

\* A call of DynamoDBService is in progress in a slot other than r.
Concurrent(r) == \E q \in Requests \ {r} : reqs[q].pc \notin {"idle", "done"}

\* A caller calls a function of the storage interface: the call c of
\* DynamoDBService starts in the slot r, LocalStorageService has left the files
\* f and raised local, the in-memory ledger holds memory and has raised raised.
Begun(r, c, f, local, memory, raised, entries) ==
    /\ clock < MaxDbCalls
    /\ reqs' = [reqs EXCEPT ![r] = c]
    /\ store' = [store EXCEPT !.local = f]
    /\ state' = [memory |-> memory,
                 log    |-> state.log \cup entries
                            \cup (IF Concurrent(r) THEN {"concurrent"} ELSE {})]
    /\ last' = [called |-> TRUE, op |-> c.op, slot |-> r, alone |-> ~Concurrent(r),
                before |-> store, memory |-> raised, local |-> local]
    /\ clock' = clock + 1

\* The request is one of those the in-memory ledger is given: a buy or a sell
\* of a positive quantity at a positive price on the portfolio it holds.
InScope(req) ==
    /\ req.portfolio_id \in PortfolioIds
    /\ req.side \in {"buy", "sell"}
    /\ RLess(Zero, req.quantity)
    /\ RLess(Zero, req.price)

\* What portfolio_sim.execute_trade does with the request.
MemoryCall(req) ==
    execute_trade(state.memory, req.symbol, req.side, req.quantity, req.price, clock + 1)

\* What LocalStorageService.execute_trade does with the request.
LocalCall(req) ==
    local_execute_trade(store.local, clock + 1, req.portfolio_id, req.symbol, req.side,
                        req.quantity, req.price, req.trade_type)

\* execute_trade is called.
LedgerTrade(r, req) ==
    /\ reqs[r].pc \in {"idle", "done"}
    /\ Commensurable(state.memory, req.quantity)
    /\ Begun(r, TradeCall(clock + 1, req.portfolio_id, req.symbol, req.side,
                          req.quantity, req.price, req.trade_type),
             LocalCall(req).f, LocalCall(req).raised,
             IF InScope(req) THEN Kept(MemoryCall(req)) ELSE state.memory,
             IF InScope(req) THEN MemoryCall(req).raised ELSE "not called",
             IF InScope(req) THEN {"execute_trade"} ELSE {"execute_trade", "unmatched"})

\* create_portfolio is called.
LedgerCreatePortfolio(r, user_id, portfolio_name, initial_value, tracked_symbols) ==
    /\ reqs[r].pc \in {"idle", "done"}
    /\ Commensurable(state.memory, initial_value)
    /\ Begun(r, CreateCall(NewIds[clock + 1], user_id, portfolio_name, initial_value,
                           tracked_symbols),
             local_create_portfolio(store.local, NewIds[clock + 1], user_id,
                                    [portfolio_name  |-> portfolio_name,
                                     initial_value   |-> initial_value,
                                     tracked_symbols |-> tracked_symbols],
                                    clock + 1),
             "none", state.memory, "not called", {"create_portfolio"})

\* update_portfolio is called; LocalStorageService has no such function.
LedgerUpdatePortfolio(r, portfolio_id, updates) ==
    /\ reqs[r].pc \in {"idle", "done"}
    /\ Begun(r, UpdateCall("update_portfolio", portfolio_id, updates), store.local,
             "not called", state.memory, "not called", {"update_portfolio"})

\* update_position is called; LocalStorageService has no such function.
LedgerUpdatePosition(r, portfolio_id, symbol, quantity, avg_cost, current_price) ==
    /\ reqs[r].pc \in {"idle", "done"}
    /\ Commensurable(state.memory, quantity)
    /\ Begun(r, PositionCall(portfolio_id, symbol, quantity, avg_cost, current_price),
             store.local, "not called", state.memory, "not called",
             {"update_position"})

\* add_tracked_symbol is called.
LedgerAddTrackedSymbol(r, portfolio_id, symbol) ==
    /\ reqs[r].pc \in {"idle", "done"}
    /\ Begun(r, TrackedCall("add_tracked_symbol", portfolio_id, symbol),
             local_add_tracked_symbol(store.local, portfolio_id, symbol), "none",
             state.memory, "not called", {"add_tracked_symbol"})

\* remove_tracked_symbol is called.
LedgerRemoveTrackedSymbol(r, portfolio_id, symbol) ==
    /\ reqs[r].pc \in {"idle", "done"}
    /\ Begun(r, TrackedCall("remove_tracked_symbol", portfolio_id, symbol),
             local_remove_tracked_symbol(store.local, portfolio_id, symbol), "none",
             state.memory, "not called", {"remove_tracked_symbol"})

\* delete_portfolio is called: update_portfolio with is_active False.
LedgerDeletePortfolio(r, portfolio_id) ==
    /\ reqs[r].pc \in {"idle", "done"}
    /\ Begun(r, UpdateCall("delete_portfolio", portfolio_id, [is_active |-> FALSE]),
             local_delete_portfolio(store.local, portfolio_id), "none",
             state.memory, "not called", {"delete_portfolio"})

\* The call r takes its next read or write, which the table answers.
DbAdvance(r) ==
    /\ reqs[r].pc \notin {"idle", "done"}
    /\ store' = [store EXCEPT !.dynamo = DbStep(@, reqs[r], "ok").t]
    /\ reqs' = [reqs EXCEPT ![r] = DbStep(store.dynamo, @, "ok").c]
    /\ UNCHANGED <<state, clock, last>>

\* Lines 302-304: the get_item of a read raises ClientError, and the call goes
\* on with the None that get_portfolio returns.
DbReadFails(r) ==
    /\ reqs[r].pc \in ReadPlaces
    /\ reqs' = [reqs EXCEPT ![r] = DbStep(store.dynamo, @, "ClientError").c]
    /\ state' = [state EXCEPT !.log = @ \cup {"ClientError"}]
    /\ UNCHANGED <<clock, last, store>>

\* The put_item or update_item of a write raises ClientError.
DbWriteFails(r) ==
    /\ reqs[r].pc \in WritePlaces
    /\ reqs' = [reqs EXCEPT ![r] = WriteFailed(@)]
    /\ state' = [state EXCEPT !.log = @ \cup {"ClientError"}]
    /\ UNCHANGED <<clock, last, store>>

LedgersNext ==
    \E r \in Requests :
        \/ \E req \in LedgerTrades : LedgerTrade(r, req)
        \/ \E cash \in InitCash : LedgerCreatePortfolio(r, "u1", "main", cash, <<>>)
        \/ \E portfolio_id \in RequestedIds :
              \/ \E updates \in LedgerUpdates :
                    LedgerUpdatePortfolio(r, portfolio_id, updates)
              \/ LedgerUpdatePosition(r, portfolio_id, "X", Rat(2, 1, 0), Rat(1, 1, 0),
                                      Rat(1, 1, 0))
              \/ LedgerAddTrackedSymbol(r, portfolio_id, "X")
              \/ LedgerRemoveTrackedSymbol(r, portfolio_id, "X")
              \/ LedgerDeletePortfolio(r, portfolio_id)
        \/ DbAdvance(r)
        \/ DbReadFails(r)
        \/ DbWriteFails(r)

Ledgers == LedgersInit /\ [][LedgersNext]_vars

(***************************************************************************)
(* The endpoints of src/backend/app.py on its db_service: register, login, *)
(* the portfolio endpoints, and /init and /paper_trade.  db_service is     *)
(* LocalStorageService unless USE_LOCAL_STORAGE is set to another value    *)
(* than 'true', and DynamoDBService then (lines 77-92 of app.py).  A       *)
(* handler has no await: it runs from its first line to its response       *)
(* before the next request is taken.                                       *)
(*                                                                         *)
(* store is the backend and what it holds.  On LocalStorageService:        *)
(* the three files users.json, portfolios.json and trades.json, as the     *)
(* entries that LocalStorageService wrote (users, portfolios, trades) and, *)
(* per file, the dict that save_user of /init and /paper_trade wrote to it *)
(* (saved, None for none), DATA_DIR being the directory of the three       *)
(* files.  On DynamoDBService: the items of the users table, of the        *)
(* portfolios table (numbers as Decimal) and of the trades table, and the  *)
(* files of DATA_DIR that save_user wrote (saved), which no table reads.   *)
(* A request on DynamoDBService comes with raises, the table call that     *)
(* raises ClientError if the request comes to it ("none" for none).        *)
(*                                                                         *)
(* state is the users that hold a token, the number of portfolios created  *)
(* and the log of the endpoints answered; last is the last request and its *)
(* response, clock the number of requests answered.                        *)
(***************************************************************************)
MaxApiRequests == 4

\* db_service, by the value of USE_LOCAL_STORAGE (lines 77-92 of app.py).
Backends == {"local", "dynamodb"}

\* The ids uuid4 gives to the users and to the portfolios, in the order they
\* are created.
UserPool == <<"u1", "u2">>

PortfolioPool == <<"p1", "p2">>

ApiUsers == {UserPool[i] : i \in 1..Len(UserPool)}

\* The keys of the dict that save_user writes (PortfolioState.model_dump).
SavedKeys == {"cash", "positions", "history"}

\* The portfolio_id of a path, which is any string: the ids of the pool, stored
\* or not, and the keys of a file that save_user wrote.  The requests drawn on
\* DynamoDBService leave the keys out: they are ids of no item there, as an id
\* of the pool that is not stored.
ApiPortfolioIds == {PortfolioPool[i] : i \in 1..Len(PortfolioPool)} \cup SavedKeys

Requested(s, portfolio_id) == s.backend = "local" \/ portfolio_id \notin SavedKeys

ApiCash == Rat(3, 1, 0)

\* Symbols as the requests spell them.
ApiSymbols == {"X", "x"}

\* The bodies of POST /portfolios/{id}/trades (ExecuteTradeRequest), of one
\* share each: symbol and side in either case, trade_type at its default and
\* given.
ApiTrades ==
    {[symbol |-> "x", side |-> "buy", quantity |-> Rat(1, 1, 0), trade_type |-> "market"],
     [symbol |-> "X", side |-> "Sell", quantity |-> Rat(1, 1, 0), trade_type |-> "limit"]}

\* The bodies of POST /portfolios: the name, and the list of tracked symbols
\* (<<>> also for a body without one).
ApiNames == {"main"}

ApiTracked == {<<>>, <<"x">>, <<"X", "X">>}

\* The bodies of POST /auth/register: the email, and whether the email and the
\* password pass lines 195-200 of auth_service.py ('@' in the email, a password
\* of 8 characters).
ApiRegistrations ==
    {[email |-> "a@x.io", valid |-> TRUE],
     [email |-> "b@x.io", valid |-> TRUE],
     [email |-> "b@x.io", valid |-> FALSE]}

\* The bodies of POST /auth/login: the email, and whether the password is the
\* one that was hashed for the user that get_user_by_email gives
\* (verify_password).
ApiLogins ==
    {[email |-> "a@x.io", password_ok |-> TRUE],
     [email |-> "a@x.io", password_ok |-> FALSE]}

\* The id tokens of POST /auth/google: whether verify_oauth2_token accepts the
\* token, and the sub and the email it gives.
ApiGoogleTokens ==
    {[verified |-> TRUE, sub |-> "g1", email |-> "a@x.io"],
     [verified |-> FALSE, sub |-> "g1", email |-> "a@x.io"]}

\* The files of LocalStorageService, by the user_id that names them in
\* save_user.
LocalFiles == {"users", "portfolios", "trades"}

\* The updates of the update_user calls.
ApiUpdates == {[is_active |-> FALSE], [default_portfolio_id |-> "p2"]}

\* symbol.upper() and side.lower()
Upper(symbol) == IF symbol = "x" THEN "X" ELSE symbol

Lower(side) == IF side = "Sell" THEN "sell" ELSE side

\* Lines 66-77 of create_user in local_storage.py and 135-145 in
\* dynamodb_service.py: the fields of the user that the endpoints read; a user
\* has a password_hash or an oauth_id ("None" for None), by the caller.
LocalUser(user_id, email, oauth_id) ==
    [user_id |-> user_id, email |-> email, oauth_id |-> oauth_id, is_active |-> TRUE,
     default_portfolio_id |-> "None"]

\* A file of LocalStorageService without an entry, and a table without an item.
NoEntries(file) == IF file = "trades" THEN <<>> ELSE [id \in {} |-> None]

\* Lines 35-37 of local_storage.py: the three files hold '{}'; the tables of
\* DynamoDBService hold no item.
ApiStore(backend) ==
    [backend    |-> backend,
     users      |-> NoEntries("users"),
     portfolios |-> NoEntries("portfolios"),
     trades     |-> NoEntries("trades"),
     saved      |-> [file \in LocalFiles |-> None]]

ApiInit ==
    /\ state = [tokens |-> {}, ids |-> 0, log |-> {}]
    /\ clock = 0
    /\ store \in {ApiStore(backend) : backend \in Backends}
    /\ last = [called |-> FALSE, endpoint |-> "", user_id |-> "", portfolio_id |-> "",
               raises |-> "none", status |-> 0, body |-> "none", before |-> store]
    /\ reqs = IdleTrade

\* What a handler leaves: the files or tables, the status of the response and
\* the kind of data in its body ("none" for an error detail).
Response(s, status, body) == [s |-> s, status |-> status, body |-> body]

\* The table calls that an endpoint makes on DynamoDBService and whose
\* ClientError a caller can tell from an answer: those of the users table by the
\* name of the function, handler_get_portfolio for the get_portfolio of the
\* first lines of a portfolio handler, and the places of DbStep for the function
\* the handler calls then.  The queries of get_user_portfolios and of
\* get_portfolio_trades return [] on ClientError (lines 329-331 and 675-677 of
\* dynamodb_service.py), with which the handler answers as for no item.
TableCalls(endpoint) ==
    CASE endpoint = "register" -> {"get_user_by_email", "create_user"}
      [] endpoint = "login" -> {"get_user_by_email"}
      [] endpoint = "google_auth" ->
            {"get_user_by_oauth", "get_user_by_email", "create_user"}
      [] endpoint = "update_user" -> {"update_user"}
      [] endpoint = "get_portfolios" -> {"get_user_by_id"}
      [] endpoint = "create_portfolio" ->
            {"get_user_by_id", "put_portfolio", "update_user"}
      [] endpoint \in {"get_portfolio_detail", "get_tracked_symbols",
                       "get_portfolio_trades"} ->
            {"get_user_by_id", "handler_get_portfolio"}
      [] endpoint = "delete_portfolio" ->
            {"get_user_by_id", "handler_get_portfolio", "update_item", "update_user"}
      [] endpoint = "activate_portfolio" ->
            {"get_user_by_id", "handler_get_portfolio", "update_user"}
      [] endpoint \in {"add_tracked_symbol", "remove_tracked_symbol"} ->
            {"get_user_by_id", "handler_get_portfolio", "get_tracked", "update_item"}
      [] endpoint = "execute_trade_endpoint" ->
            {"get_user_by_id", "handler_get_portfolio", "get_portfolio", "validate",
             "put_trade", "update_balance", "get_position", "update_position",
             "write_position"}
      [] OTHER -> {}

\* What raises may be in a request to the endpoint: one of its table calls,
\* or "none".
ApiRaises(endpoint) == {"none"} \cup TableCalls(endpoint)

\* What the table call does in a request whose call raises raises.
TableAnswer(raises, call) == IF raises = call THEN "ClientError" ELSE "ok"

\* A function of DynamoDBService run from the place of the call c to its return,
\* table call by table call, in a request whose call raises raises.
RECURSIVE DbRun(_, _, _)
DbRunOn(a, raises) == DbRun(a.t, a.c, raises)

DbRun(t, c, raises) ==
    IF c.pc = "done" THEN After(t, c)
    ELSE IF c.pc = raises /\ c.pc \in WritePlaces THEN After(t, WriteFailed(c))
    ELSE DbRunOn(DbStep(t, c, TableAnswer(raises, c.pc)), raises)

\* The calls of the functions of DynamoDBService that the portfolio handlers
\* make for the owner: delete_portfolio, add_tracked_symbol and
\* remove_tracked_symbol (op) with symbol.upper(), and execute_trade with the
\* price of the quote.
DeleteCall(portfolio_id) ==
    UpdateCall("delete_portfolio", portfolio_id, [is_active |-> FALSE])

TrackCall(op, portfolio_id, symbol) == TrackedCall(op, portfolio_id, Upper(symbol))

QuotedTradeCall(trade_id, portfolio_id, req, quote) ==
    TradeCall(trade_id, portfolio_id, Upper(req.symbol), Lower(req.side), req.quantity,
              quote.price, req.trade_type)

\* The file of LocalStorageService holds the keys cash, positions and history,
\* which come before every entry: a loop over its values raises AttributeError
\* at the first.
Foreign(s, file) == s.backend = "local" /\ s.saved[file] # None

\* The users of the email.
UsersOfEmail(s, email) == {u \in DOMAIN s.users : s.users[u].email = email}

\* Lines 90-96 of local_storage.py: get_user_by_email found a user.
EmailStored(s, email) == UsersOfEmail(s, email) # {}

\* Lines 90-96 of local_storage.py: the user that get_user_by_email gives.
UserOfEmail(s, email) == CHOOSE u \in UsersOfEmail(s, email) : TRUE

\* What get_user_by_email may return.  Lines 90-96 of local_storage.py: the
\* user of the email, None for none.  Lines 169-180 of dynamodb_service.py:
\* items[0] of the query of email-index, which gives the items of the email in
\* no order that the code sets; None for no item and when the query raises
\* ClientError.
get_user_by_email(s, email, raises) ==
    IF raises = "get_user_by_email" \/ ~EmailStored(s, email) THEN {None}
    ELSE IF s.backend = "dynamodb" THEN {s.users[u] : u \in UsersOfEmail(s, email)}
    ELSE {s.users[UserOfEmail(s, email)]}

\* The users of the sub.
UsersOfOauth(s, sub) == {u \in DOMAIN s.users : s.users[u].oauth_id = sub}

\* What get_user_by_oauth may return.  Lines 98-105 of local_storage.py: the
\* user of the sub, None for none.  Lines 182-192 of dynamodb_service.py:
\* items[0] of the scan, None for no item and when the scan raises ClientError.
get_user_by_oauth(s, sub, raises) ==
    IF raises = "get_user_by_oauth" \/ UsersOfOauth(s, sub) = {} THEN {None}
    ELSE IF s.backend = "dynamodb" THEN {s.users[u] : u \in UsersOfOauth(s, sub)}
    ELSE {s.users[CHOOSE u \in UsersOfOauth(s, sub) : TRUE]}

\* Lines 58-83 of local_storage.py and 110-158 of dynamodb_service.py:
\* create_user with the next uuid, which no stored user has.
create_user(s, user_id, email, oauth_id) ==
    [s EXCEPT !.users = [u \in DOMAIN s.users \cup {user_id} |->
                            IF u = user_id THEN LocalUser(user_id, email, oauth_id)
                            ELSE s.users[u]]]

\* Lines 209-230 of app.py and 174-227 of auth_service.py: register, existing
\* being what get_user_by_email returned.  On the file that save_user wrote the
\* loop of get_user_by_email raises AttributeError; the ClientError of put_item
\* is raised again by create_user (lines 154-158 of dynamodb_service.py) and
\* answered 500.
register(s, user_id, req, raises, existing) ==
    IF ~req.valid THEN Response(s, 400, "none")
    ELSE IF Foreign(s, "users") THEN Response(s, 500, "none")
    ELSE IF existing # None THEN Response(s, 400, "none")
    ELSE IF raises = "create_user" THEN Response(s, 500, "none")
    ELSE Response(create_user(s, user_id, req.email, "None"), 200, "token")

\* Lines 234-253 of app.py and 229-263 of auth_service.py: login, user being
\* what get_user_by_email returned; every ValueError is answered 401.
login(s, req, user) ==
    IF Foreign(s, "users") THEN Response(s, 500, "none")
    ELSE IF user = None THEN Response(s, 401, "none")
    ELSE IF ~Get(user, "is_active", TRUE) THEN Response(s, 401, "none")
    ELSE IF user.oauth_id # "None" THEN Response(s, 401, "none")
    ELSE IF ~req.password_ok THEN Response(s, 401, "none")
    ELSE Response(s, 200, "token")

\* Lines 256-275 of app.py and 269-330 of auth_service.py: google_auth, by_oauth
\* and by_email being what get_user_by_oauth and get_user_by_email returned; an
\* exception that is no ValueError, the ClientError of create_user among them,
\* is raised again as ValueError, and every ValueError is answered 401.
google_auth(s, user_id, req, raises, by_oauth, by_email) ==
    IF ~req.verified THEN Response(s, 401, "none")
    ELSE IF Foreign(s, "users") THEN Response(s, 401, "none")
    ELSE IF by_oauth # None
    THEN IF Get(by_oauth, "is_active", TRUE) THEN Response(s, 200, "token")
         ELSE Response(s, 401, "none")
    ELSE IF by_email # None THEN Response(s, 401, "none")
    ELSE IF raises = "create_user" THEN Response(s, 401, "none")
    ELSE Response(create_user(s, user_id, req.email, req.sub), 200, "token")

\* Lines 295-304 of app.py and 156-159 of local_storage.py: get_portfolios; the
\* loop over the values of portfolios.json raises AttributeError at a value that
\* is no dict.
get_portfolios(s, user_id) ==
    IF Foreign(s, "portfolios") THEN Response(s, 500, "none")
    ELSE Response(s, 200, "portfolios")

\* Lines 151-154 of local_storage.py: get_portfolio is portfolios.get of the
\* dict of portfolios.json, whose value under the key is an entry that
\* create_portfolio wrote or, in a file that save_user wrote, the float under
\* cash and the list under positions and history.
local_get_portfolio(s, portfolio_id) ==
    IF portfolio_id \in DOMAIN s.portfolios THEN s.portfolios[portfolio_id]
    ELSE IF Foreign(s, "portfolios") /\ portfolio_id \in SavedKeys
    THEN s.saved["portfolios"][portfolio_id]
    ELSE None

\* not portfolio, for what local_get_portfolio gives under the key: None, the
\* float 0.0 and the empty list.
NotPortfolio(s, portfolio_id) ==
    IF portfolio_id \in DOMAIN s.portfolios THEN FALSE
    ELSE IF ~(Foreign(s, "portfolios") /\ portfolio_id \in SavedKeys) THEN TRUE
    ELSE IF portfolio_id = "cash" THEN IsZero(local_get_portfolio(s, portfolio_id))
    ELSE local_get_portfolio(s, portfolio_id) = <<>>

\* The first lines of every portfolio handler on LocalStorageService: 404 when
\* not portfolio; portfolio['user_id'] raises TypeError on a float and on a
\* list, which except Exception answers 500; 403 when the user_id of the entry
\* is not the current user's.
LocalAccess(s, user_id, portfolio_id) ==
    IF NotPortfolio(s, portfolio_id) THEN 404
    ELSE IF portfolio_id \notin DOMAIN s.portfolios THEN 500
    ELSE IF s.portfolios[portfolio_id].user_id # user_id THEN 403
    ELSE 200

\* The same on DynamoDBService, portfolio being what get_portfolio returned:
\* None for no item and when get_item raised ClientError.
DynamoAccess(portfolio, user_id) ==
    IF portfolio = None THEN 404
    ELSE IF "user_id" \notin DOMAIN portfolio THEN 500
    ELSE IF portfolio.user_id # user_id THEN 403
    ELSE 200

\* The first lines of every portfolio handler: db_service.get_portfolio, 404
\* when there is none, 403 when its user_id is not the current user's, and 500
\* for the exception that is no HTTPException.
Access(s, user_id, portfolio_id, raises) ==
    IF s.backend = "dynamodb"
    THEN DynamoAccess(get_portfolio(s, portfolio_id,
                                    TableAnswer(raises, "handler_get_portfolio")),
                      user_id)
    ELSE LocalAccess(s, user_id, portfolio_id)

\* The response of a handler that was refused by Access.
Denied(s, status) == Response(s, status, "none")

\* Lines 107-115 of local_storage.py: update_user sets the entries of updates
\* and updated_at on the user, at the time now.
update_user(user, updates, now) ==
    [k \in DOMAIN user \cup DOMAIN updates \cup {"updated_at"} |->
        IF k = "updated_at" THEN now
        ELSE IF k \in DOMAIN updates THEN updates[k]
        ELSE user[k]]

\* Lines 107-115 of local_storage.py on the files: a user_id without a user
\* leaves them as they are.
local_update_user(s, user_id, updates, now) ==
    IF user_id \in DOMAIN s.users
    THEN [s EXCEPT !.users[user_id] = update_user(@, updates, now)]
    ELSE s

\* Lines 117-119 of local_storage.py: update_default_portfolio.
update_default_portfolio(s, user_id, portfolio_id, now) ==
    local_update_user(s, user_id, [default_portfolio_id |-> portfolio_id], now)

\* The item that update_item of the users table works on: the stored one, or a
\* new item of the key.
UserItem(s, user_id) ==
    IF user_id \in DOMAIN s.users THEN s.users[user_id] ELSE [user_id |-> user_id]

\* Lines 194-234 of dynamodb_service.py: update_user; ValueError when updates
\* has no attribute to set beside the key, else update_item with SET of the
\* others, whose ClientError is raised again.
dynamo_update_user(s, user_id, updates, raises) ==
    IF DOMAIN updates \ {"user_id"} = {} THEN [s |-> s, raised |-> "ValueError"]
    ELSE IF raises = "update_user" THEN [s |-> s, raised |-> "ClientError"]
    ELSE [s |-> [s EXCEPT !.users =
                    [u \in DOMAIN s.users \cup {user_id} |->
                        IF u = user_id
                        THEN [k \in DOMAIN UserItem(s, user_id)
                                    \cup (DOMAIN updates \ {"user_id"}) |->
                                 IF k \in DOMAIN updates \ {"user_id"} THEN updates[k]
                                 ELSE UserItem(s, user_id)[k]]
                        ELSE s.users[u]]],
          raised |-> "none"]

\* Lines 236-238 of dynamodb_service.py: update_default_portfolio.
dynamo_update_default_portfolio(s, user_id, portfolio_id, raises) ==
    dynamo_update_user(s, user_id, [default_portfolio_id |-> portfolio_id], raises)

\* The response of a handler after its last call u of DynamoDBService: except
\* Exception answers 500 when the call raised, else the handler answers with
\* the body.
Handled(u, body) ==
    IF u.raised # "none" THEN Response(u.s, 500, "none")
    ELSE Response(u.s, 200, body)

\* Lines 314-326 of app.py on DynamoDBService, run being create_portfolio at
\* its return: the default of a user without one is set to the new portfolio.
CreatedOnDynamo(run, s, user_id, portfolio_id, raises) ==
    IF run.c.raised # "none" THEN Response(run.t, 500, "none")
    ELSE IF Get(s.users[user_id], "default_portfolio_id", "None") # "None"
    THEN Response(run.t, 200, "portfolio")
    ELSE Handled(dynamo_update_default_portfolio(run.t, user_id, portfolio_id, raises),
                 "portfolio")

\* Lines 307-329 of app.py.
create_portfolio(s, user_id, portfolio_id, req, now, raises) ==
    IF s.backend = "dynamodb"
    THEN CreatedOnDynamo(DbRun(s, CreateCall(portfolio_id, user_id, req.portfolio_name,
                                             req.initial_value, req.tracked_symbols),
                               raises),
                         s, user_id, portfolio_id, raises)
    ELSE Response(IF s.users[user_id].default_portfolio_id = "None"
                  THEN update_default_portfolio(
                           local_create_portfolio(s, portfolio_id, user_id, req, now),
                           user_id, portfolio_id, now)
                  ELSE local_create_portfolio(s, portfolio_id, user_id, req, now),
                  200, "portfolio")

\* Lines 332-370 of app.py: the prices are refreshed in the dict of the response.
get_portfolio_detail(s, user_id, portfolio_id, raises) ==
    IF Access(s, user_id, portfolio_id, raises) # 200
    THEN Denied(s, Access(s, user_id, portfolio_id, raises))
    ELSE Response(s, 200, "portfolio")

\* Lines 389-398 of app.py on DynamoDBService, run being delete_portfolio at
\* its return: 500 when it returned False, else the default of the user is
\* cleared when it was the portfolio.
DeletedOnDynamo(run, s, user_id, portfolio_id, raises) ==
    IF run.c.ret # "True" THEN Response(run.t, 500, "none")
    ELSE IF Get(s.users[user_id], "default_portfolio_id", "None") # portfolio_id
    THEN Response(run.t, 200, "success")
    ELSE Handled(dynamo_update_default_portfolio(run.t, user_id, "None", raises),
                 "success")

\* Lines 373-403 of app.py.
delete_portfolio(s, user_id, portfolio_id, now, raises) ==
    IF Access(s, user_id, portfolio_id, raises) # 200
    THEN Denied(s, Access(s, user_id, portfolio_id, raises))
    ELSE IF s.backend = "dynamodb"
    THEN DeletedOnDynamo(DbRun(s, DeleteCall(portfolio_id), raises),
                         s, user_id, portfolio_id, raises)
    ELSE Response(IF s.users[user_id].default_portfolio_id = portfolio_id
                  THEN update_default_portfolio(local_delete_portfolio(s, portfolio_id),
                                                user_id, "None", now)
                  ELSE local_delete_portfolio(s, portfolio_id),
                  200, "success")

\* Lines 406-430 of app.py.
activate_portfolio(s, user_id, portfolio_id, now, raises) ==
    IF Access(s, user_id, portfolio_id, raises) # 200
    THEN Denied(s, Access(s, user_id, portfolio_id, raises))
    ELSE IF s.backend = "dynamodb"
    THEN Handled(dynamo_update_default_portfolio(s, user_id, portfolio_id, raises),
                 "success")
    ELSE Response(update_default_portfolio(s, user_id, portfolio_id, now),
                  200, "success")

\* The response of a handler after the function run of DynamoDBService that it
\* called last: 400 for ValueError where the handler catches it (lines 551-552
\* of app.py), 500 for every other exception.
Ran(run, body, catches) ==
    IF run.c.raised = "none" THEN Response(run.t, 200, body)
    ELSE IF run.c.raised = "ValueError" /\ catches THEN Response(run.t, 400, "none")
    ELSE Response(run.t, 500, "none")

\* Lines 437-460 of app.py.
add_tracked_symbol(s, user_id, portfolio_id, symbol, raises) ==
    IF Access(s, user_id, portfolio_id, raises) # 200
    THEN Denied(s, Access(s, user_id, portfolio_id, raises))
    ELSE IF s.backend = "dynamodb"
    THEN Ran(DbRun(s, TrackCall("add_tracked_symbol", portfolio_id, symbol), raises),
             "portfolio", FALSE)
    ELSE Response(local_add_tracked_symbol(s, portfolio_id, Upper(symbol)),
                  200, "portfolio")

\* Lines 463-486 of app.py.
remove_tracked_symbol(s, user_id, portfolio_id, symbol, raises) ==
    IF Access(s, user_id, portfolio_id, raises) # 200
    THEN Denied(s, Access(s, user_id, portfolio_id, raises))
    ELSE IF s.backend = "dynamodb"
    THEN Ran(DbRun(s, TrackCall("remove_tracked_symbol", portfolio_id, symbol),
                   raises),
             "portfolio", FALSE)
    ELSE Response(local_remove_tracked_symbol(s, portfolio_id, Upper(symbol)),
                  200, "portfolio")

\* Lines 489-509 of app.py.
get_tracked_symbols(s, user_id, portfolio_id, raises) ==
    IF Access(s, user_id, portfolio_id, raises) # 200
    THEN Denied(s, Access(s, user_id, portfolio_id, raises))
    ELSE Response(s, 200, "symbols")

\* Lines 516-557 of app.py: req is the body of the request, quote what
\* get_latest_price gave (quoted says whether it gave a price).
execute_trade_endpoint(s, user_id, portfolio_id, trade_id, req, quote, raises) ==
    IF Access(s, user_id, portfolio_id, raises) # 200
    THEN Denied(s, Access(s, user_id, portfolio_id, raises))
    ELSE IF ~quote.quoted THEN Denied(s, 404)
    ELSE IF s.backend = "dynamodb"
    THEN Ran(DbRun(s, QuotedTradeCall(trade_id, portfolio_id, req, quote), raises),
             "trade", TRUE)
    ELSE Response(local_execute_trade(s, trade_id, portfolio_id, Upper(req.symbol),
                                      Lower(req.side), req.quantity, quote.price,
                                      req.trade_type).f,
                  200, "trade")

\* Lines 560-588 of app.py and 239-248 of local_storage.py: the loop over the
\* values of trades.json raises AttributeError at a value that is no dict.
get_portfolio_trades(s, user_id, portfolio_id, raises) ==
    IF Access(s, user_id, portfolio_id, raises) # 200
    THEN Denied(s, Access(s, user_id, portfolio_id, raises))
    ELSE IF Foreign(s, "trades") THEN Response(s, 500, "none")
    ELSE Response(s, 200, "trades")

\* persistence.save_user: the text of the file is the dict obj; the entries that
\* a file of LocalStorageService held are gone.
save_local(s, file, obj) ==
    IF s.backend = "local"
    THEN [s EXCEPT ![file] = NoEntries(file), !.saved[file] = obj]
    ELSE [s EXCEPT !.saved[file] = obj]

\* Lines 609-619 of app.py: init_user with the user_id file.
init_user(s, file, cash) ==
    Response(save_local(s, file, model_dump(PortfolioState(cash, <<>>, <<>>))),
             200, "state")

\* load_user gives None for a file that is not there, and json.loads a dict
\* without a key for a file of LocalStorageService without an entry.
EmptyFile(s, file) ==
    /\ s.saved[file] = None
    /\ (s.backend = "dynamodb" \/ DOMAIN s[file] = {})

\* Lines 755-775 of app.py: paper_trade with the user_id file.  A file without
\* a key is "user not found"; PortfolioState(**user) raises ValidationError for
\* a file without cash and ignores the entries beside cash, positions and
\* history; call is what execute_trade gave.
paper_trade(s, file, quote, call) ==
    IF EmptyFile(s, file) THEN Response(s, 404, "none")
    ELSE IF ~quote.quoted THEN Response(s, 500, "none")
    ELSE IF s.saved[file] = None THEN Response(s, 500, "none")
    ELSE IF call.raised # "none" THEN Response(s, 500, "none")
    ELSE Response(save_local(s, file, model_dump(call.ret)), 200, "state")

\* Lines 85-88 of local_storage.py and 160-167 of dynamodb_service.py:
\* get_user_by_id, None for no user and when get_item raises ClientError; a file
\* that save_user wrote has no user_id among its keys.
get_user_by_id(s, user_id, raises) ==
    IF raises # "get_user_by_id" /\ user_id \in DOMAIN s.users THEN s.users[user_id]
    ELSE None

\* Lines 98-103 of app.py and 361-363 of auth_service.py: get_current_user_dep
\* answers 401 unless the token names a stored user that is active.
Authenticated(s, user_id, raises) ==
    /\ get_user_by_id(s, user_id, raises) # None
    /\ Get(get_user_by_id(s, user_id, raises), "is_active", TRUE)

\* The handler calls update_default_portfolio: create_portfolio for a user
\* without a default (line 323 of app.py), delete_portfolio for the default
\* (line 394), activate_portfolio always (line 422).
UpdatesDefault(s, endpoint, user_id, portfolio_id) ==
    CASE endpoint = "create_portfolio" ->
            Get(s.users[user_id], "default_portfolio_id", "None") = "None"
      [] endpoint = "delete_portfolio" ->
            Get(s.users[user_id], "default_portfolio_id", "None") = portfolio_id
      [] endpoint = "activate_portfolio" -> TRUE
      [] OTHER -> FALSE

\* The table calls that a request can come to.  With a token: the read of the
\* user; for an authenticated user the read of the portfolio; for its owner
\* the table calls of the function that the handler calls, and update_user.
Reached(s, endpoint, user_id, portfolio_id) ==
    IF endpoint \in {"register", "login", "google_auth", "update_user"}
    THEN TableCalls(endpoint)
    ELSE TableCalls(endpoint)
         \cap ({"get_user_by_id"}
               \cup IF ~Authenticated(s, user_id, "none") THEN {}
                    ELSE {"handler_get_portfolio"}
                         \cup IF endpoint # "create_portfolio"
                                 /\ Access(s, user_id, portfolio_id, "none") # 200
                              THEN {}
                              ELSE ReadPlaces \cup WritePlaces
                                   \cup IF UpdatesDefault(s, endpoint, user_id,
                                                          portfolio_id)
                                        THEN {"update_user"} ELSE {})

\* The table call that raises ClientError in a request if the request comes to
\* it, "none" for none: one of those the request can come to;
\* LocalStorageService has no table.
Raises(s, endpoint, user_id, portfolio_id) ==
    IF s.backend = "dynamodb"
    THEN {"none"} \cup Reached(s, endpoint, user_id, portfolio_id)
    ELSE {"none"}

\* The response to a request with the token of the user, which the handler
\* would answer with r.
Guarded(s, user_id, raises, r) ==
    IF Authenticated(s, user_id, raises) THEN r ELSE Response(s, 401, "none")

\* A request is answered with the response r.
Answer(endpoint, user_id, portfolio_id, raises, r) ==
    /\ clock < MaxApiRequests
    /\ Requested(store, portfolio_id)
    /\ raises \in Raises(store, endpoint, user_id, portfolio_id)
    /\ store' = r.s
    /\ last' = [called |-> TRUE, endpoint |-> endpoint, user_id |-> user_id,
                portfolio_id |-> portfolio_id, raises |-> raises, status |-> r.status,
                body |-> r.body, before |-> store]
    /\ clock' = clock + 1
    /\ state' = [state EXCEPT
                    !.log = @ \cup {endpoint},
                    !.tokens = IF endpoint \in {"register", "google_auth"}
                                  /\ r.status = 200
                               THEN @ \cup {user_id} ELSE @,
                    !.ids = IF endpoint = "create_portfolio"
                               /\ portfolio_id \in DOMAIN r.s.portfolios
                            THEN @ + 1 ELSE @]
    /\ UNCHANGED reqs

\* POST /auth/register: the new user is given the next id and a token.
Register(req, raises) ==
    /\ Cardinality(state.tokens) < Len(UserPool)
    /\ \E existing \in get_user_by_email(store, req.email, raises) :
          Answer("register", UserPool[Cardinality(state.tokens) + 1], "", raises,
                 register(store, UserPool[Cardinality(state.tokens) + 1], req, raises,
                          existing))

\* POST /auth/login: the user of the email is given a token again.
Login(req, raises) ==
    /\ \E user \in get_user_by_email(store, req.email, raises) :
          Answer("login", req.email, "", raises, login(store, req, user))

\* The user that POST /auth/google gives a token: the user of the sub, or a new
\* one with the next id.
GoogleUser(by_oauth) ==
    IF by_oauth # None THEN by_oauth.user_id
    ELSE UserPool[Cardinality(state.tokens) + 1]

\* POST /auth/google
GoogleAuth(req, raises) ==
    /\ Cardinality(state.tokens) < Len(UserPool)
    /\ \E by_oauth \in get_user_by_oauth(store, req.sub, raises),
          by_email \in get_user_by_email(store, req.email, raises) :
          Answer("google_auth", GoogleUser(by_oauth), "", raises,
                 google_auth(store, GoogleUser(by_oauth), req, raises, by_oauth,
                             by_email))

\* GET /portfolios
GetPortfolios(user_id, raises) ==
    /\ user_id \in state.tokens
    /\ Answer("get_portfolios", user_id, "", raises,
              Guarded(store, user_id, raises, get_portfolios(store, user_id)))

\* What update_user of the db_service leaves and returns: the user, or None
\* ("none") from LocalStorageService for a user_id without a user and from
\* DynamoDBService when it raised.
updated_user(s, user_id, updates, now, raises) ==
    IF s.backend = "dynamodb"
    THEN Response(dynamo_update_user(s, user_id, updates, raises).s, 0,
                  IF dynamo_update_user(s, user_id, updates, raises).raised = "none"
                  THEN "user" ELSE "none")
    ELSE Response(local_update_user(s, user_id, updates, now), 0,
                  IF user_id \in DOMAIN s.users THEN "user" ELSE "none")

\* update_user of the db_service is called (AuthService.change_password calls
\* it with a password_hash).
UpdateUser(user_id, updates, raises) ==
    /\ user_id \in state.tokens
    /\ Answer("update_user", user_id, "", raises,
              updated_user(store, user_id, updates, clock + 1, raises))

\* POST /init, which takes no token.
ApiInitUser(file, cash) ==
    /\ Answer("init_user", file, "", "none", init_user(store, file, cash))

\* POST /paper_trade, which takes no token.
ApiPaperTrade(file, symbol, side, quantity, quote) ==
    /\ Answer("paper_trade", file, "", "none",
              paper_trade(store, file, quote,
                          execute_trade(FromDump(store.saved[file]), symbol, side,
                                        quantity, quote.price, clock + 1)))

CreatePortfolio(user_id, portfolio_name, tracked_symbols, raises) ==
    /\ user_id \in state.tokens
    /\ state.ids < Len(PortfolioPool)
    /\ Answer("create_portfolio", user_id, PortfolioPool[state.ids + 1], raises,
              Guarded(store, user_id, raises,
                      create_portfolio(store, user_id, PortfolioPool[state.ids + 1],
                                       [portfolio_name  |-> portfolio_name,
                                        initial_value   |-> ApiCash,
                                        tracked_symbols |-> tracked_symbols],
                                       clock + 1, raises)))

GetPortfolioDetail(user_id, portfolio_id, raises) ==
    /\ user_id \in state.tokens
    /\ Answer("get_portfolio_detail", user_id, portfolio_id, raises,
              Guarded(store, user_id, raises,
                      get_portfolio_detail(store, user_id, portfolio_id, raises)))

DeletePortfolio(user_id, portfolio_id, raises) ==
    /\ user_id \in state.tokens
    /\ Answer("delete_portfolio", user_id, portfolio_id, raises,
              Guarded(store, user_id, raises,
                      delete_portfolio(store, user_id, portfolio_id, clock + 1,
                                       raises)))

ActivatePortfolio(user_id, portfolio_id, raises) ==
    /\ user_id \in state.tokens
    /\ Answer("activate_portfolio", user_id, portfolio_id, raises,
              Guarded(store, user_id, raises,
                      activate_portfolio(store, user_id, portfolio_id, clock + 1,
                                         raises)))

AddTrackedSymbol(user_id, portfolio_id, symbol, raises) ==
    /\ user_id \in state.tokens
    /\ Answer("add_tracked_symbol", user_id, portfolio_id, raises,
              Guarded(store, user_id, raises,
                      add_tracked_symbol(store, user_id, portfolio_id, symbol,
                                         raises)))

RemoveTrackedSymbol(user_id, portfolio_id, symbol, raises) ==
    /\ user_id \in state.tokens
    /\ Answer("remove_tracked_symbol", user_id, portfolio_id, raises,
              Guarded(store, user_id, raises,
                      remove_tracked_symbol(store, user_id, portfolio_id, symbol,
                                            raises)))

GetTrackedSymbols(user_id, portfolio_id, raises) ==
    /\ user_id \in state.tokens
    /\ Answer("get_tracked_symbols", user_id, portfolio_id, raises,
              Guarded(store, user_id, raises,
                      get_tracked_symbols(store, user_id, portfolio_id, raises)))

\* What get_latest_price gives: no price, or one of the closes.
ApiQuotes ==
    {[quoted |-> FALSE, price |-> Zero]}
    \cup {[quoted |-> TRUE, price |-> price] : price \in Quotes}

ExecuteTradeEndpoint(user_id, portfolio_id, req, quote, raises) ==
    /\ user_id \in state.tokens
    /\ Answer("execute_trade_endpoint", user_id, portfolio_id, raises,
              Guarded(store, user_id, raises,
                      execute_trade_endpoint(store, user_id, portfolio_id, clock + 1,
                                             req, quote, raises)))

GetPortfolioTrades(user_id, portfolio_id, raises) ==
    /\ user_id \in state.tokens
    /\ Answer("get_portfolio_trades", user_id, portfolio_id, raises,
              Guarded(store, user_id, raises,
                      get_portfolio_trades(store, user_id, portfolio_id, raises)))

ApiNext ==
    \/ \E req \in ApiRegistrations, raises \in ApiRaises("register") :
          Register(req, raises)
    \/ \E req \in ApiLogins, raises \in ApiRaises("login") : Login(req, raises)
    \/ \E req \in ApiGoogleTokens, raises \in ApiRaises("google_auth") :
          GoogleAuth(req, raises)
    \/ \E file \in LocalFiles :
          \/ \E cash \in {Zero, ApiCash} : ApiInitUser(file, cash)
          \/ \E quote \in ApiQuotes :
                ApiPaperTrade(file, "X", "buy", Rat(1, 1, 0), quote)
    \/ \E user_id \in ApiUsers :
          \/ \E updates \in ApiUpdates, raises \in ApiRaises("update_user") :
                UpdateUser(user_id, updates, raises)
          \/ \E raises \in ApiRaises("get_portfolios") : GetPortfolios(user_id, raises)
          \/ \E portfolio_name \in ApiNames, tracked_symbols \in ApiTracked,
                raises \in ApiRaises("create_portfolio") :
                CreatePortfolio(user_id, portfolio_name, tracked_symbols, raises)
          \/ \E portfolio_id \in ApiPortfolioIds :
                \/ \E raises \in ApiRaises("get_portfolio_detail") :
                      GetPortfolioDetail(user_id, portfolio_id, raises)
                \/ \E raises \in ApiRaises("delete_portfolio") :
                      DeletePortfolio(user_id, portfolio_id, raises)
                \/ \E raises \in ApiRaises("activate_portfolio") :
                      ActivatePortfolio(user_id, portfolio_id, raises)
                \/ \E symbol \in ApiSymbols :
                      \/ \E raises \in ApiRaises("add_tracked_symbol") :
                            AddTrackedSymbol(user_id, portfolio_id, symbol, raises)
                      \/ \E raises \in ApiRaises("remove_tracked_symbol") :
                            RemoveTrackedSymbol(user_id, portfolio_id, symbol, raises)
                \/ \E raises \in ApiRaises("get_tracked_symbols") :
                      GetTrackedSymbols(user_id, portfolio_id, raises)
                \/ \E req \in ApiTrades, quote \in ApiQuotes,
                      raises \in ApiRaises("execute_trade_endpoint") :
                      ExecuteTradeEndpoint(user_id, portfolio_id, req, quote, raises)
                \/ \E raises \in ApiRaises("get_portfolio_trades") :
                      GetPortfolioTrades(user_id, portfolio_id, raises)

Api == ApiInit /\ [][ApiNext]_vars

(***************************************************************************)
(* Properties.                                                             *)
(***************************************************************************)
Succeeded == last.called /\ last.raised = "none"

Failed == last.called /\ last.raised # "none"

\* The quantity held of a symbol, 0 when it has no position.
Held(s, symbol) ==
    IF FindPosition(s.positions, symbol) = 0 THEN Zero
    ELSE s.positions[FindPosition(s.positions, symbol)].quantity

\* The average price of a symbol's position, 0 when it has no position.
AvgOf(s, symbol) ==
    IF FindPosition(s.positions, symbol) = 0 THEN Zero
    ELSE s.positions[FindPosition(s.positions, symbol)].avg_price

\* C1 (solvency): from a starting cash >= 0, every successful execute_trade
\* with quantity > 0 and price > 0 returns a state whose cash is >= 0.
C1_Solvency == Succeeded => RLeq(Zero, last.ret.cash)

\* After earlier trades, a buy has succeeded and left cash 0.
C1_Witness ==
    /\ Succeeded
    /\ last.side = "buy"
    /\ Len(last.pre.history) > 0
    /\ last.ret.cash = Zero

\* C2 (inventory): every successful execute_trade with quantity > 0 and
\* price > 0 returns a state all of whose positions have quantity >= 0.
C2_Inventory ==
    Succeeded =>
        \A i \in 1..Len(last.ret.positions) : RLeq(Zero, last.ret.positions[i].quantity)

\* A sell of part of a holding has succeeded while another symbol is held too.
C2_Witness ==
    /\ Succeeded
    /\ last.side = "sell"
    /\ RLess(Zero, Held(last.ret, last.symbol))
    /\ Len(last.ret.positions) = 2

\* C3 (no mutation of the argument): after every call, failed or successful,
\* the state object passed in is deep-equal to what it was before the call,
\* and a successful call returns another object than the one passed in.
C3_InputNotMutated ==
    last.called =>
        /\ last.arg = last.pre
        /\ (last.raised = "none" => last.retid = "copy")

\* A sell on a symbol without a position has failed, with other trades applied
\* before it.
C3_Witness ==
    /\ Failed
    /\ last.side = "sell"
    /\ FindPosition(last.pre.positions, last.symbol) = 0
    /\ Len(last.pre.history) > 0
    /\ state = last.pre

\* C4 (invalid side): a call whose side is neither "buy" nor "sell" fails
\* (the code has one exception type, so: an exception is raised), and no
\* cash or position change is applied and no history record is appended.
C4_InvalidSideRejected ==
    (last.called /\ last.side \notin {"buy", "sell"}) =>
        /\ last.raised # "none"
        /\ state = last.pre

\* C5 (insufficient funds): a buy fails with "Insufficient cash" exactly when
\* quantity*price is greater than the cash, it fails in no other way, a buy
\* whose cost equals the cash succeeds and leaves cash 0, and a rejected buy
\* changes nothing.
C5_InsufficientFunds ==
    (last.called /\ last.side = "buy") =>
        LET cost == RMul(last.quantity, last.price)
        IN /\ (last.raised = "Insufficient cash") <=> RLess(last.pre.cash, cost)
           /\ last.raised \in {"none", "Insufficient cash"}
           /\ (cost = last.pre.cash => (last.raised = "none" /\ last.ret.cash = Zero))
           /\ (last.raised # "none" => (state = last.pre /\ last.arg = last.pre))

\* A buy whose cost is exactly the cash balance has succeeded and left cash 0.
C5_Witness ==
    /\ Succeeded
    /\ last.side = "buy"
    /\ last.pre.cash = RMul(last.quantity, last.price)
    /\ last.ret.cash = Zero

\* C6 (insufficient shares): a sell fails with "Insufficient shares" exactly
\* when the quantity is greater than the quantity held, a symbol without a
\* position counting as 0 held; so a sell on a symbol without a position
\* fails, and a sell of exactly the quantity held succeeds.
C6_InsufficientShares ==
    (last.called /\ last.side = "sell") =>
        LET held == Held(last.pre, last.symbol)
        IN /\ (last.raised = "Insufficient shares") <=> RLess(held, last.quantity)
           /\ last.raised \in {"none", "Insufficient shares"}
           /\ (FindPosition(last.pre.positions, last.symbol) = 0 => last.raised # "none")
           /\ (held = last.quantity => last.raised = "none")

\* A sell of exactly the quantity held has succeeded.
C6_Witness ==
    /\ Succeeded
    /\ last.side = "sell"
    /\ Held(last.pre, last.symbol) = last.quantity
    /\ Held(last.ret, last.symbol) = Zero

\* The history is two buys of one symbol: q1 at p1, then q2 at p2, from no position.
TwoBuys(s) ==
    /\ Len(s.history) = 2
    /\ s.history[1].side = "buy"
    /\ s.history[2].side = "buy"
    /\ s.history[1].symbol = s.history[2].symbol

\* (q1*p1 + q2*p2) / (q1 + q2) of the two records
BlendOfTwo(h1, h2) ==
    RDiv(RAdd(RMul(h1.quantity, h1.price), RMul(h2.quantity, h2.price)),
         RAdd(h1.quantity, h2.quantity))

C8_SellEffect ==
    (Succeeded /\ last.side = "sell") =>
        LET remaining == Held(last.ret, last.symbol)
        IN /\ last.ret.cash = RAdd(last.pre.cash, RMul(last.quantity, last.price))
           /\ remaining = RSub(Held(last.pre, last.symbol), last.quantity)
           /\ RLess(Zero, remaining) =>
                 AvgOf(last.ret, last.symbol) = AvgOf(last.pre, last.symbol)
           /\ remaining = Zero => AvgOf(last.ret, last.symbol) = Zero

\* A sell of part of a holding has succeeded and the average cost, not 0, is kept.
C8_Witness ==
    /\ Succeeded
    /\ last.side = "sell"
    /\ RLess(Zero, Held(last.ret, last.symbol))
    /\ AvgOf(last.ret, last.symbol) = AvgOf(last.pre, last.symbol)
    /\ AvgOf(last.ret, last.symbol) # Zero

\* The last call is a successful buy of a symbol whose position was sold down to 0.
BuyAfterSellOut ==
    /\ Succeeded
    /\ last.side = "buy"
    /\ FindPosition(last.pre.positions, last.symbol) # 0
    /\ Held(last.pre, last.symbol) = Zero

\* The last call is a successful sell that left the symbol's quantity 0.
SoldOut ==
    /\ Succeeded
    /\ last.side = "sell"
    /\ Held(last.ret, last.symbol) = Zero

C10_HistoryAppendOnly ==
    /\ Succeeded =>
          /\ last.ret.history
                 = Append(last.pre.history,
                          Trade(last.symbol, last.side, last.quantity, last.price,
                                last.time))
          /\ state.history = last.ret.history
    /\ Failed => state.history = last.pre.history
    /\ \A i, j \in 1..Len(state.history) :
          i < j => state.history[i].time < state.history[j].time

\* A second trade has been applied after a failed call, and the history holds
\* the two applied trades.
C10_Witness ==
    /\ Succeeded
    /\ last.time = 3
    /\ Len(state.history) = 2
    /\ state.history[2].time = 3

\* C11 (no stale basis): in every state that execute_trade calls with
\* quantity > 0 and price > 0 reach from a new portfolio, every position
\* whose quantity is zero has average price zero.
C11_ZeroQuantityZeroBasis ==
    \A i \in 1..Len(state.positions) :
        state.positions[i].quantity = Zero => state.positions[i].avg_price = Zero

\* A sell has just brought a position that had a non-zero average price down to
\* quantity zero.
C11_Witness ==
    /\ Succeeded
    /\ AvgOf(last.pre, last.symbol) # Zero
    /\ Held(state, last.symbol) = Zero
    /\ FindPosition(state.positions, last.symbol) # 0

\* C12 (one position per symbol): in every state that execute_trade calls,
\* successful or failed, reach from a new portfolio, no two positions have
\* the same symbol.
C12_OnePositionPerSymbol ==
    \A i, j \in 1..Len(state.positions) :
        state.positions[i].symbol = state.positions[j].symbol => i = j

\* One symbol was bought twice and has one position, and a sell of the other
\* symbol, which has none, has failed.
C12_Witness ==
    /\ Failed
    /\ FindPosition(last.pre.positions, last.symbol) = 0
    /\ Len(state.positions) = 1
    /\ \E i, j \in 1..Len(state.history) :
          i # j /\ state.history[i].side = "buy" /\ state.history[j].side = "buy"
          /\ state.history[i].symbol = state.history[j].symbol

\* The request of the slot has been answered with a 200.
Answered200(r) == reqs[r].pc = "done" /\ reqs[r].status = 200

\* The trade record that the request of the slot had appended.
TradeOf(r) == reqs[r].state.history[Len(reqs[r].state.history)]

\* The stored state of a user.
Stored(user_id) == FromDump(load_user(store, user_id).obj)

\* The text is one that a write of the state of the slot leaves in the file:
\* the text of the state, alone or followed by bytes of an older text.
WrittenBy(r, text) ==
    \/ text = json_dumps(model_dump(reqs[r].state))
    \/ /\ text # <<>>
       /\ text[Len(text)].t = "trailing"
       /\ SubSeq(text, 1, Len(text) - 1) = json_dumps(model_dump(reqs[r].state))

\* Both requests loaded the same snapshot, the second one before the first one
\* applied its trade; both saved, and the second one wrote last.
Raced(r1, r2) ==
    /\ r1 # r2
    /\ Answered200(r1) /\ Answered200(r2)
    /\ reqs[r1].symbol # "" /\ reqs[r2].symbol # ""
    /\ reqs[r1].user_id = reqs[r2].user_id
    /\ reqs[r1].user = reqs[r2].user
    /\ reqs[r2].loaded_at < TradeOf(r1).time
    /\ WrittenBy(r2, store[reqs[r2].user_id].text)

\* Cash after the trade tr was applied on cash (a side other than "buy" adds).
CashAfter(cash, tr) ==
    IF tr.side = "buy" THEN RSub(cash, RMul(tr.quantity, tr.price))
    ELSE RAdd(cash, RMul(tr.quantity, tr.price))

\* The quantity held after the trade tr was applied on the holding held.
HeldAfter(held, tr) ==
    IF tr.side = "buy" THEN RAdd(held, tr.quantity) ELSE RSub(held, tr.quantity)

\* C13 (lost update): when two /paper_trade requests for one user have loaded
\* the same stored snapshot, applied their trades and saved, the stored state
\* is the snapshot with the later writer's trade alone: the file reads back,
\* its history is the snapshot's plus that one record, its cash and holding
\* are the snapshot's changed by that trade, and the earlier writer's record
\* is not in it.
C13_LostUpdate ==
    \A r1, r2 \in Requests :
        Raced(r1, r2) =>
            /\ load_user(store, reqs[r2].user_id).found
            /\ Stored(reqs[r2].user_id).history
                   = Append(FromDump(reqs[r2].user).history, TradeOf(r2))
            /\ \A k \in 1..Len(Stored(reqs[r2].user_id).history) :
                   Stored(reqs[r2].user_id).history[k] # TradeOf(r1)
            /\ Stored(reqs[r2].user_id).cash
                   = CashAfter(FromDump(reqs[r2].user).cash, TradeOf(r2))
            /\ Held(Stored(reqs[r2].user_id), reqs[r2].symbol)
                   = HeldAfter(Held(FromDump(reqs[r2].user), reqs[r2].symbol),
                               TradeOf(r2))

\* C14 (last line of defence): whatever quantity the caller passes, zero and
\* negative ones included, no execute_trade call returns a state with
\* cash < 0 or with a position of quantity < 0.
C14_LastLineOfDefence ==
    (last.called /\ last.raised = "none") =>
        /\ RLeq(Zero, last.ret.cash)
        /\ \A k \in 1..Len(last.ret.positions) :
               RLeq(Zero, last.ret.positions[k].quantity)

\* C15 (validated upstream): every call of execute_trade that paper_trade
\* makes has quantity > 0 and price > 0.
C15_ValidatedUpstream ==
    last.called => RLess(Zero, last.quantity) /\ RLess(Zero, last.price)

\* The exceptions of the ledger.
LedgerRejections == {"Insufficient cash", "Insufficient shares"}

\* C16 (client errors): a /paper_trade request that the ledger rejected is
\* answered with a 4xx status.
C16_RejectionIsClientError ==
    \A r \in Requests :
        (reqs[r].pc = "done" /\ reqs[r].raised \in LedgerRejections) =>
            reqs[r].status \in 400..499

\* The steps of paper_trade in the order of its lines.
StepOrder == <<"load", "price", "apply", "save">>

IsPrefix(a, b) == Len(a) <= Len(b) /\ a = SubSeq(b, 1, Len(a))

\* The places of paper_trade.
TradePlaces == {"load", "price", "apply", "save", "write"}

\* The slot takes a step of the /paper_trade request it serves.
Steps(r) == reqs[r].pc \in TradePlaces /\ reqs'[r] # reqs[r]

\* The state that execute_trade returns for the request of the slot.
AppliedState(r) ==
    execute_trade(FromDump(reqs[r].user), reqs[r].symbol, reqs[r].side,
                  reqs[r].quantity, reqs[r].price, TradeOf(r).time).ret

\* C17 (load, price, apply, save): every /paper_trade request takes its steps
\* in the order load, fetch price, apply trade, save; it changes the store in
\* its save alone (the file is opened, then written), which it takes after
\* execute_trade has returned a state and which writes that state; a request
\* answered with a failure has called no save and none of its steps changed
\* the store.
C17_SaveAfterApply ==
    [][\A r \in Requests :
          Steps(r) =>
              /\ IsPrefix(reqs'[r].trace, StepOrder)
              /\ Len(reqs'[r].trace)
                     = Len(reqs[r].trace) + (IF reqs[r].pc = "write" THEN 0 ELSE 1)
              /\ store' # store =>
                     /\ reqs[r].pc \in {"save", "write"}
                     /\ SubSeq(reqs'[r].trace, 1, 3) = <<"load", "price", "apply">>
                     /\ reqs[r].raised = "none"
                     /\ reqs[r].state = AppliedState(r)
                     /\ reqs[r].pc = "save" =>
                            store' = OpenForWriting(store, reqs[r].user_id)
                     /\ reqs[r].pc = "write" =>
                            /\ WrittenBy(r, store'[reqs[r].user_id].text)
                            /\ reqs'[r].status = 200
              /\ (reqs'[r].pc = "done" /\ reqs'[r].status # 200) =>
                     /\ store' = store
                     /\ \A k \in 1..Len(reqs'[r].trace) : reqs'[r].trace[k] # "save"]_vars

\* A request has been refused by the ledger after another request changed the
\* user's file, and the file is as that other request left it.
C17_Witness ==
    \E r \in Requests :
        /\ reqs[r].pc = "done"
        /\ reqs[r].raised \in LedgerRejections
        /\ store[reqs[r].user_id].text # json_dumps(reqs[r].user)
        /\ Len(Stored(reqs[r].user_id).history) > 0

\* C18 (apply-trade alone mutates): once a user's portfolio is stored, its
\* stored state changes only by the save of a /paper_trade request whose
\* trade was applied; no /init changes it.
C18_OnlyApplyTradeMutates ==
    [][\A u \in Users :
          (store[u].exists /\ store'[u] # store[u]) =>
              \E r \in Requests :
                  /\ reqs[r].pc \in {"save", "write"}
                  /\ reqs'[r].pc # reqs[r].pc
                  /\ reqs[r].user_id = u]_vars

\* The state read back from the file that save_user wrote for s.
ReadBack(s, user_id) ==
    FromDump(load_user(save_user(NoStore, user_id, model_dump(s)), user_id).obj)

\* C19 (round trip): every state reached by trades, dumped, saved, loaded
\* and rebuilt, is the state it was: the loaded dict has the fields and the
\* values of the dumped one, positions and history in the same order.
C19_RoundTrip ==
    \A u \in Users :
        /\ load_user(save_user(NoStore, u, model_dump(state)), u).found
        /\ load_user(save_user(NoStore, u, model_dump(state)), u).obj = model_dump(state)
        /\ ReadBack(state, u) = state

\* A state with positions of two symbols and three trades, one of them at an
\* average price between two fill prices.
C19_Witness ==
    /\ Len(state.positions) = 2
    /\ Len(state.history) = 3
    /\ \E k \in 1..2 : state.positions[k].avg_price.den # 1
    /\ \A u \in Users : ReadBack(state, u) = state

\* The trades of the scenario, in call order.
ScenarioTrades ==
    <<Trade("X", "buy", Rat(2, 1, 0), Rat(100, 1, 0), 1),
      Trade("X", "buy", Rat(2, 1, 0), Rat(200, 1, 0), 2),
      Trade("X", "sell", Rat(4, 1, 0), Rat(150, 1, 0), 3)>>

\* The first n calls were the first n trades of the scenario, all successful.
Followed(n) == clock = n /\ state.history = SubSeq(ScenarioTrades, 1, n)

\* C20 (scenario): from cash 1000 with no positions, buy 2 X at 100 gives
\* cash 800 and X (2, 100); buy 2 X at 200 then gives cash 400 and X (4, 150);
\* sell 4 X at 150 then gives cash 1000, three history records in call order,
\* and the one position X kept with quantity 0 and average 0.
C20_Scenario ==
    /\ Followed(1) =>
          /\ state.cash = Rat(800, 1, 0)
          /\ state.positions = <<Position("X", Rat(2, 1, 0), Rat(100, 1, 0))>>
    /\ Followed(2) =>
          /\ state.cash = Rat(400, 1, 0)
          /\ state.positions = <<Position("X", Rat(4, 1, 0), Rat(150, 1, 0))>>
    /\ Followed(3) =>
          /\ state.cash = Rat(1000, 1, 0)
          /\ state.positions = <<Position("X", Zero, Zero)>>
          /\ Len(state.history) = 3

\* The three trades of the scenario have been applied.
C20_Witness == Followed(3) /\ last.side = "sell" /\ last.raised = "none"

\* The sum of quantity * price over the records of the side in the history.
RECURSIVE Turnover(_, _)
Turnover(history, side) ==
    IF Len(history) = 0 THEN Zero
    ELSE RAdd(IF Head(history).side = side
              THEN RMul(Head(history).quantity, Head(history).price) ELSE Zero,
              Turnover(Tail(history), side))

\* The sum of the quantities of the records of the side and symbol.
RECURSIVE Volume(_, _, _)
Volume(history, side, symbol) ==
    IF Len(history) = 0 THEN Zero
    ELSE RAdd(IF Head(history).side = side /\ Head(history).symbol = symbol
              THEN Head(history).quantity ELSE Zero,
              Volume(Tail(history), side, symbol))

\* The sum of quantity * price over the records of the side, in real numbers.
RECURSIVE ExactTurnover(_, _)
ExactTurnover(history, side) ==
    IF Len(history) = 0 THEN ToB64(Zero)
    ELSE ExactAdd(IF Head(history).side = side
                  THEN ExactMul(ToB64(Head(history).quantity), ToB64(Head(history).price))
                  ELSE ToB64(Zero),
                  ExactTurnover(Tail(history), side))

\* The sum of the quantities of the records of the side and symbol, in real
\* numbers.
RECURSIVE ExactVolume(_, _, _)
ExactVolume(history, side, symbol) ==
    IF Len(history) = 0 THEN ToB64(Zero)
    ELSE ExactAdd(IF Head(history).side = side /\ Head(history).symbol = symbol
                  THEN ToB64(Head(history).quantity) ELSE ToB64(Zero),
                  ExactVolume(Tail(history), side, symbol))

\* cash is c0 minus the buy turnover plus the sell turnover of the history: as
\* real numbers, or as the float that the expression gives.
CashReconciles(s, c0) ==
    \/ ToB64(s.cash) = ExactAdd(ExactAdd(ToB64(c0), BNeg(ExactTurnover(s.history, "buy"))),
                                ExactTurnover(s.history, "sell"))
    \/ ToB64(s.cash) = ToB64(RAdd(RSub(c0, Turnover(s.history, "buy")),
                                  Turnover(s.history, "sell")))

\* The held quantity of the symbol is what its records bought minus what they
\* sold: as real numbers, or as the float that the expression gives.
HoldingReconciles(s, symbol) ==
    \/ ToB64(Held(s, symbol)) = ExactAdd(ExactVolume(s.history, "buy", symbol),
                                         BNeg(ExactVolume(s.history, "sell", symbol)))
    \/ ToB64(Held(s, symbol)) = ToB64(RSub(Volume(s.history, "buy", symbol),
                                           Volume(s.history, "sell", symbol)))

\* C25 (reconciliation): from cash C0 with no positions and no history, after
\* any sequence of execute_trade calls with side buy or sell, cash is C0
\* minus the turnover of the buy records plus the turnover of the sell
\* records, and every symbol's held quantity is what its records bought
\* minus what they sold.
C25_Reconciles ==
    /\ CashReconciles(state, store.cash)
    /\ \A symbol \in Symbols : HoldingReconciles(state, symbol)

\* C26 (frame): a successful execute_trade on a symbol leaves every position
\* that existed at its place in the list, leaves the positions of the other
\* symbols as they were, adds at most one position, of that symbol and at
\* the end, and leaves the earlier history records as they were.
C26_Frame ==
    Succeeded =>
        /\ Len(last.ret.positions) \in
               {Len(last.pre.positions), Len(last.pre.positions) + 1}
        /\ \A k \in 1..Len(last.pre.positions) :
               /\ last.ret.positions[k].symbol = last.pre.positions[k].symbol
               /\ last.pre.positions[k].symbol # last.symbol =>
                      last.ret.positions[k] = last.pre.positions[k]
        /\ \A k \in (Len(last.pre.positions) + 1)..Len(last.ret.positions) :
               last.ret.positions[k].symbol = last.symbol
        /\ SubSeq(last.ret.history, 1, Len(last.pre.history)) = last.pre.history

\* A trade on the symbol of the second position has succeeded while the first
\* position holds shares of the other symbol.
C26_Witness ==
    /\ Succeeded
    /\ Len(last.pre.positions) = 2
    /\ last.pre.positions[2].symbol = last.symbol
    /\ RLess(Zero, last.pre.positions[1].quantity)
    /\ last.ret.positions[2] # last.pre.positions[2]

\* The retry loop of _fetch_yfinance_with_retry is running.
InLoop == reqs.pc \in {"yf_import", "yf"}

\* Every outcome of os before the place n is a failed attempt.
AllFailed(os, n) == \A i \in 1..n : os[i] # "rows"

\* What the loop hands back at its return, given the attempts it made.
LoopReturn ==
    reqs.pc = "yf_back" =>
        IF reqs.df.kind = "rows"
        THEN /\ Len(reqs.outcomes) \in 1..YFINANCE_MAX_RETRIES
             /\ reqs.outcomes[Len(reqs.outcomes)] = "rows"
             /\ AllFailed(reqs.outcomes, Len(reqs.outcomes) - 1)
        ELSE \/ ~store.yfinance_installed /\ reqs.outcomes = <<>>
             \/ /\ Len(reqs.outcomes) = YFINANCE_MAX_RETRIES
                /\ AllFailed(reqs.outcomes, YFINANCE_MAX_RETRIES)

\* C24: _fetch_yfinance_with_retry calls ticker.history() at most
\* YFINANCE_MAX_RETRIES times, returns the first frame that has rows and a close
\* that is not NaN without a further attempt, returns None once the last
\* attempt has failed, and always returns.
C24_BoundedRetry ==
    /\ [](Len(reqs.outcomes) <= YFINANCE_MAX_RETRIES /\ LoopReturn)
    /\ (InLoop ~> reqs.pc = "yf_back")

\* Three failed attempts of the three kinds, then None.
C24_Witness ==
    /\ reqs.pc = "yf_back"
    /\ reqs.df = NoDf
    /\ reqs.outcomes = <<"empty", "nan", "raise">>
    /\ reqs.slept = 2

\* C21: the sources are tried in the fixed order yfinance (when configured) then
\* Alpha Vantage, and a call whose sources all failed returns the no-data
\* result: no call of candles() or get_latest_price() returns the frame of
\* _generate_mock_data.
C21_NoMockQuote == last.called => last.ret.source # "mock"

\* No call of DynamoDBService is in progress.
Quiescent == \A r \in Requests : reqs[r].pc \in {"idle", "done"}

\* The call that started last has ended, and no other call was in progress
\* while it ran.
RanAlone == last.called /\ last.alone /\ reqs[last.slot].pc = "done"

\* C23: when DynamoDBService.execute_trade raises ValueError it has put no trade
\* item and left the portfolio item as it was.
C23_ValidatesBeforeWrites ==
    (RanAlone /\ last.op = "execute_trade" /\ reqs[last.slot].raised = "ValueError")
        => store.dynamo = last.before.dynamo

\* Every call so far was an execute_trade, each began after the one before it
\* had ended, and every table call was answered.
OnlyTrades == state.log \subseteq {"execute_trade", "unmatched"}

\* C22: LocalStorageService and DynamoDBService give the same request the same
\* answer: both refuse it or both accept it, and after it they hold the same
\* current_balance and the same positions; the balance of neither goes below 0.
C22_Interchangeable ==
    (Quiescent /\ OnlyTrades) =>
        \A id \in PortfolioIds :
            /\ last.called => (last.local = "none" <=> reqs[last.slot].raised = "none")
            /\ store.local.portfolios[id].current_balance
                  = Float(store.dynamo.portfolios[id].current_balance)
            /\ store.local.portfolios[id].positions
                  = PositionsToFloat(store.dynamo.portfolios[id].positions)
            /\ RLeq(Zero, store.local.portfolios[id].current_balance)
            /\ RLeq(Zero, Float(store.dynamo.portfolios[id].current_balance))

\* The quantity and the average cost of the symbol in the database ledger, zero
\* when it has no position.
DbPositions(id) == PositionsToFloat(store.dynamo.portfolios[id].positions)

DbHeld(id, symbol) ==
    IF PositionIndex(DbPositions(id), symbol) = 0 THEN Zero
    ELSE PositionAt(DbPositions(id), symbol).quantity

DbAvg(id, symbol) ==
    IF PositionIndex(DbPositions(id), symbol) = 0 THEN Zero
    ELSE PositionAt(DbPositions(id), symbol).avg_cost

\* C27: from the same cash and no positions, after every sequence of buys and
\* sells of positive quantities, given to both one after the other, the
\* in-memory ledger and the database ledger have accepted the same trades, cash
\* equals current_balance, and every symbol held in a quantity other than zero
\* has the same quantity and the same average cost in both.
C27_LedgersAgree ==
    (Quiescent /\ state.log \subseteq {"execute_trade"}) =>
        \A id \in PortfolioIds :
            /\ last.called => (last.memory = "none" <=> reqs[last.slot].raised = "none")
            /\ state.memory.cash = Float(store.dynamo.portfolios[id].current_balance)
            /\ Len(state.memory.history) = Len(store.dynamo.trades)
            /\ \A symbol \in Symbols :
                  /\ Held(state.memory, symbol) = DbHeld(id, symbol)
                  /\ Held(state.memory, symbol).num # 0 =>
                        AvgOf(state.memory, symbol) = DbAvg(id, symbol)

\* The cash a trade item adds to the balance, and the shares it adds to the
\* holding of a symbol.
CashOf(item) ==
    IF item.side = "buy" THEN RNeg(Float(item.total_amount))
    ELSE Float(item.total_amount)

SharesOf(item, symbol) ==
    IF item.symbol # symbol THEN Zero
    ELSE IF item.side = "buy" THEN Float(item.quantity)
    ELSE RNeg(Float(item.quantity))

RECURSIVE CashOfAll(_)
CashOfAll(items) ==
    IF items = <<>> THEN Zero
    ELSE RAdd(CashOfAll(SubSeq(items, 1, Len(items) - 1)), CashOf(items[Len(items)]))

RECURSIVE SharesOfAll(_, _)
SharesOfAll(items, symbol) ==
    IF items = <<>> THEN Zero
    ELSE RAdd(SharesOfAll(SubSeq(items, 1, Len(items) - 1), symbol),
              SharesOf(items[Len(items)], symbol))

\* Every call so far was an execute_trade.
TradesAlone ==
    state.log \subseteq {"execute_trade", "unmatched", "concurrent", "ClientError"}

\* C28: DynamoDBService.execute_trade is atomic: once no call is in progress,
\* whatever writes failed and however the calls interleaved, the balance and the
\* positions of the portfolio are those of the trade items stored, no more and
\* no less.
C28_Atomic ==
    (Quiescent /\ TradesAlone) =>
        /\ Float(store.dynamo.portfolios["p1"].current_balance)
              = RAdd(Float(store.dynamo.portfolios["p1"].initial_value),
                     CashOfAll(store.dynamo.trades))
        /\ \A symbol \in Symbols :
              DbHeld("p1", symbol) = SharesOfAll(store.dynamo.trades, symbol)

\* The portfolio endpoints that take the id of a portfolio.
PortfolioEndpoints ==
    {"get_portfolio_detail", "delete_portfolio", "activate_portfolio",
     "add_tracked_symbol", "remove_tracked_symbol", "get_tracked_symbols",
     "execute_trade_endpoint", "get_portfolio_trades"}

\* The last request was one of an authenticated user, on a portfolio that was
\* stored and that another user owns.
ByNonOwner ==
    /\ last.called
    /\ last.endpoint \in PortfolioEndpoints
    /\ Authenticated(last.before, last.user_id, last.raises)
    /\ last.portfolio_id \in DOMAIN last.before.portfolios
    /\ last.before.portfolios[last.portfolio_id].user_id # last.user_id

\* C29: get detail, delete, activate, add, remove and list tracked symbols,
\* execute trade and list trades answer an authenticated user who does not own
\* the portfolio with 403, hand out no data and leave users, portfolios and
\* trades as stored.
C29_NonOwnerDenied ==
    ByNonOwner =>
        /\ last.status = 403
        /\ last.body = "none"
        /\ store = last.before

\* What the endpoints keep of it on either db_service: the user who does not
\* own the portfolio is refused, with 403 or, when get_item raised ClientError
\* in get_portfolio, with 404, is handed no data, and nothing stored changes.
NonOwnerRefused ==
    ByNonOwner =>
        /\ last.status = IF last.raises = "handler_get_portfolio" THEN 404 ELSE 403
        /\ last.body = "none"
        /\ store = last.before

\* Only register, create, activate and delete requests have been answered.
OnlyPortfolioRequests ==
    state.log \subseteq {"register", "create_portfolio", "activate_portfolio",
                         "delete_portfolio"}

\* C30: after every sequence of create, activate and delete requests the
\* default_portfolio_id of a user is None or the id of a portfolio the user owns
\* and that is still active.
C30_DefaultIsOwnActive ==
    OnlyPortfolioRequests =>
        \A u \in DOMAIN store.users :
            \/ store.users[u].default_portfolio_id = "None"
            \/ /\ store.users[u].default_portfolio_id \in DOMAIN store.portfolios
               /\ store.portfolios[store.users[u].default_portfolio_id].user_id = u
               /\ store.portfolios[store.users[u].default_portfolio_id].is_active
====
